---- MODULE Spec2Model ----
(***************************************************************************)
(* A model of the district behavioural-classification pipeline of the      *)
(* dashboard scripts: the aggregation and merge of the enrolment,          *)
(* demographic-update and biometric-update record streams                  *)
(* (insight_5.py, insight_6.py, insight_7.py), the K-Means clustering and  *)
(* rank-based labelling of insight_6.py, and the threshold labelling of    *)
(* insight_7.py.                                                           *)
(*                                                                         *)
(* Tables (pandas DataFrames) are sequences of records, one record per     *)
(* row.  Ratios are kept exact: a ratio is compared by cross               *)
(* multiplication, never rounded.                                          *)
(***************************************************************************)
EXTENDS Integers, Sequences, FiniteSets, TLC

VARIABLES
    script,         \* which script this run executes
    pc,             \* position of the script run
    df_enrol,       \* raw enrolment records read from the CSV files
    df_bio,         \* raw biometric-update records
    df_demo,        \* raw demographic-update records
    df,             \* the table returned by the loader (master table)
    sel,            \* the widget values of the current run
    df_filtered,    \* insight_6 main: the filtered table object
    df_analyzed,    \* insight_6 main: the table the dashboard renders
    error,          \* the exception raised in the run, or NoError
    fitted,         \* the results of the seeded KMeans calls made so far
    tie_rank,       \* the order in which the sort leaves equal means, once seen
    first_run,      \* history: the first result of main on each clustered input
    missing,        \* the categories whose CSV files are not on the disk
    audit_df,       \* insight_6 main: the audit list shown below the charts
    attempted,      \* pinger: the requests made so far, with their outcomes
    success_count,  \* pinger: the counter of ping_apps
    groq_available, \* insight_2: whether the import of groq succeeded
    secrets,        \* chat: the keys of the secrets file
    state_selection,\* chat: the filter selection of the current run
    chat_history,   \* chat: st.session_state.chat_history
    request,        \* chat: the call of get_ai_response of the latest run
    df_state,       \* app: the 'state' column of the table being cleaned
    state_before    \* app history: the column before the latest clean_data

vars == <<script, pc, df_enrol, df_bio, df_demo, df, sel, df_filtered,
          df_analyzed, error, fitted, tie_rank,
          first_run, missing, audit_df, attempted, success_count,
          groq_available, secrets, state_selection, chat_history, request,
          df_state, state_before>>

\* The state of the pinger, of the chat popover and of the cleaner of app.py.
others == <<attempted, success_count, groq_available, secrets,
            state_selection, chat_history, request, df_state, state_before>>

\* The state of the classification pipeline.
pipeline == <<df_enrol, df_bio, df_demo, df, sel, df_filtered, df_analyzed,
              fitted, tie_rank, first_run, missing, audit_df>>

\* No request made: the value of request before any call.
NoRequest == [called |-> FALSE]

\* The pinger, the chat and the cleaner have not run.
OthersIdle ==
    /\ attempted = <<>>
    /\ success_count = 0
    /\ groq_available = TRUE
    /\ secrets = {}
    /\ state_selection = <<>>
    /\ chat_history = <<>>
    /\ request = NoRequest
    /\ df_state = <<>>
    /\ state_before = <<>>

\* What the process keeps from one run of main to the next.
memory == <<fitted, tie_rank, first_run>>

\* The categories of files.
Categories == {"enrol", "bio", "demo"}

-----------------------------------------------------------------------------
(* Bounds of the model. *)

\* Largest total_updates of one unit of the cached master table.
MaxUpdates == 1

\* Largest number of records in the CSV files of one load, all files together.
MaxRecs == 3

\* Largest count of one record in the files of the threshold-labelling runs.
MaxAgg == 5

(* Program constants. *)

\* insight_6.py main: "if len(df_filtered) > 5".
MinRows == 5

\* insight_6.py perform_cluster_analysis: default n_clusters.
N_CLUSTERS == 3

\* One row more than the threshold, so that both branches of main run.
MaxRows == MinRows + 1

NoError == "none"

HighRisk == "High Risk (Ghost Village)"
MediumRisk == "Medium Risk (Monitor)"
LowRisk == "Low Risk (Normal Activity)"
Insufficient == "Insufficient Data for ML"

\* The labels in the order in which risk_mapping hands them out.
RiskLabels == <<HighRisk, MediumRisk, LowRisk>>

-----------------------------------------------------------------------------
(* Generic helpers on tables. *)

Min(a, b) == IF a < b THEN a ELSE b

\* Boolean indexing df[mask] is SelectSeq of the module Sequences.

(* NaN, the value of a count cell that is empty in the file or that a      *)
(* merge found no partner for.  The counts are never negative, so -1       *)
(* stands for it.                                                          *)
NaN == -1

(* A cell of a count column that read_csv could not read as a number: it   *)
(* is kept as text, and so is every cell of its column.                    *)
Unparsable == -2

RECURSIVE SumCol(_, _)
\* df[col].sum(): the sum of the cells that are not NaN.
SumCol(t, col) ==
    IF t = <<>> THEN 0
    ELSE (IF Head(t)[col] = NaN THEN 0 ELSE Head(t)[col])
         + SumCol(Tail(t), col)

\* df[col] = value for every row: the row with one more column.
WithColumn(row, col, value) ==
    [f \in DOMAIN row \cup {col} |-> IF f = col THEN value ELSE row[f]]

HasColumn(t, col) == \A i \in DOMAIN t : col \in DOMAIN t[i]

-----------------------------------------------------------------------------
(* Strings.  A state or district name is the sequence of its characters,   *)
(* so that str.title() and str.strip() are computed on it.                 *)

Letters == {"A", "B", "D", "a", "b", "d"}

\* str.upper() and str.lower() of one character.
Upper(c) == IF c = "a" THEN "A" ELSE IF c = "b" THEN "B"
            ELSE IF c = "d" THEN "D" ELSE c

Lower(c) == IF c = "A" THEN "a" ELSE IF c = "B" THEN "b"
            ELSE IF c = "D" THEN "d" ELSE c

\* ord(c)
Ord(c) == CASE c = " " -> 32 [] c = "A" -> 65 [] c = "B" -> 66
            [] c = "D" -> 68 [] c = "a" -> 97 [] c = "b" -> 98
            [] c = "d" -> 100

(* str.title(): the first letter of every word in upper case, the other    *)
(* letters in lower case; a word starts after any character that is not a  *)
(* letter.                                                                  *)
Title(name) ==
    [i \in DOMAIN name |->
        IF i = 1 \/ name[i - 1] \notin Letters
        THEN Upper(name[i]) ELSE Lower(name[i])]

RECURSIVE LStrip(_)
LStrip(name) ==
    IF name # <<>> /\ Head(name) = " " THEN LStrip(Tail(name)) ELSE name

RECURSIVE RStrip(_)
RStrip(name) ==
    IF name # <<>> /\ name[Len(name)] = " "
    THEN RStrip(SubSeq(name, 1, Len(name) - 1)) ELSE name

\* str.strip()
Strip(name) == RStrip(LStrip(name))

RECURSIVE StrLess(_, _)
\* s < t for Python strings: by code point, a proper prefix first.
StrLess(s, t) ==
    IF t = <<>> THEN FALSE
    ELSE IF s = <<>> THEN TRUE
    ELSE IF Head(s) # Head(t) THEN Ord(Head(s)) < Ord(Head(t))
    ELSE StrLess(Tail(s), Tail(t))

-----------------------------------------------------------------------------
(* Aggregation and merge: groupby(keys)[cols].sum().reset_index() and      *)
(* pd.merge(left, right, on=keys, how=...).                                *)

\* The values of the key columns of a row.
KeyOf(row, keys) == [j \in DOMAIN keys |-> row[keys[j]]]

\* Order of key tuples: names by StrLess, pincodes by <, column by column.
RECURSIVE KeyLess(_, _, _)
KeyLess(k1, k2, keys) ==
    IF keys = <<>> THEN FALSE
    ELSE LET less == IF Head(keys) = "pincode" THEN Head(k1) < Head(k2)
                     ELSE StrLess(Head(k1), Head(k2))
         IN \/ less
            \/ Head(k1) = Head(k2) /\ KeyLess(Tail(k1), Tail(k2), Tail(keys))

\* The distinct keys of a table, in the order groupby and merge list them.
SortedKeys(K, keys) ==
    [j \in 1 .. Cardinality(K) |->
        CHOOSE x \in K : Cardinality({y \in K : KeyLess(y, x, keys)}) = j - 1]

KeysIn(t, keys) == {KeyOf(t[i], keys) : i \in DOMAIN t}

\* A row made of the key columns and the value columns of vals.
MakeRow(keys, key, vals) ==
    [f \in {keys[j] : j \in DOMAIN keys} \cup DOMAIN vals |->
        IF f \in DOMAIN vals THEN vals[f]
        ELSE key[CHOOSE j \in DOMAIN keys : keys[j] = f]]

(* t.groupby(keys)[cols].sum().reset_index(): one row per distinct key of  *)
(* t, in ascending key order, each column the sum over the rows of t with  *)
(* that key.                                                                *)
GroupBySum(t, keys, cols) ==
    LET order == SortedKeys(KeysIn(t, keys), keys)
    IN [j \in DOMAIN order |->
          LET HasKey(r) == KeyOf(r, keys) = order[j]
              group == SelectSeq(t, HasKey)
          IN MakeRow(keys, order[j], [c \in cols |-> SumCol(group, c)])]

\* The row of table t with the key, or the row of NaNs for cols.
Lookup(t, keys, key, cols) ==
    IF key \in KeysIn(t, keys)
    THEN LET r == t[CHOOSE i \in DOMAIN t : KeyOf(t[i], keys) = key]
         IN [c \in cols |-> r[c]]
    ELSE [c \in cols |-> NaN]

(* pd.merge(left, right, on=keys, how='left') for a right table with at    *)
(* most one row per key: the rows of left in their order, each with the    *)
(* right columns of its key, NaN where right has no such key.              *)
MergeLeft(left, right, keys, rcols) ==
    [i \in DOMAIN left |->
        LET extra == Lookup(right, keys, KeyOf(left[i], keys), rcols)
        IN [f \in DOMAIN left[i] \cup rcols |->
              IF f \in rcols THEN extra[f] ELSE left[i][f]]]

(* pd.merge(left, right, on=keys, how='outer') for tables with at most one *)
(* row per key: one row per key of either table, in ascending key order,   *)
(* NaN in the columns of the table that lacks the key.                     *)
MergeOuter(left, right, keys, lcols, rcols) ==
    LET order == SortedKeys(KeysIn(left, keys) \cup KeysIn(right, keys), keys)
    IN [j \in DOMAIN order |->
          LET l == Lookup(left, keys, order[j], lcols)
              r == Lookup(right, keys, order[j], rcols)
          IN MakeRow(keys, order[j],
                     [f \in lcols \cup rcols |->
                         IF f \in lcols THEN l[f] ELSE r[f]])]

\* df.fillna(0); only the count columns cols can hold NaN.
FillNa0(t, cols) ==
    [i \in DOMAIN t |->
        [f \in DOMAIN t[i] |->
            IF f \in cols /\ t[i][f] = NaN THEN 0 ELSE t[i][f]]]

RECURSIVE RowSum(_, _)
(* The sum of the columns listed in cols (a sequence) of one row, as the   *)
(* addition of the columns gives it: NaN as soon as one of the cells is.   *)
RowSum(row, cols) ==
    IF cols = <<>> THEN 0
    ELSE LET rest == RowSum(row, Tail(cols))
         IN IF row[Head(cols)] = NaN \/ rest = NaN THEN NaN
            ELSE row[Head(cols)] + rest

\* df[col] = df[cols[0]] + df[cols[1]] + ...
WithRowSum(t, col, cols) ==
    [i \in DOMAIN t |-> WithColumn(t[i], col, RowSum(t[i], cols))]

\* df[[...]]: the table restricted to the columns cols.
Project(t, cols) == [i \in DOMAIN t |-> [f \in cols |-> t[i][f]]]

-----------------------------------------------------------------------------
(* insight_6.py: perform_cluster_analysis. *)

\* The feature list with the updates column left out.
FeaturesMutantEnrolOnly(row) == <<row.total_enrolments>>

\* features = df[['total_enrolments', 'total_updates']]
Features(row) == <<row.total_enrolments, row.total_updates>>

DistinctFeatures(t) == {Features(t[i]) : i \in DOMAIN t}

\* The rows of the feature frame handed to the scaler, in row order.
FeatureTable(t) == [i \in DOMAIN t |-> Features(t[i])]

RECURSIVE SumSeq(_)
SumSeq(q) == IF q = <<>> THEN 0 ELSE Head(q) + SumSeq(Tail(q))

\* Column j of a feature frame, and its squares.
FeatureColumn(F, j) == [i \in DOMAIN F |-> F[i][j]]
Squares(q) == [i \in DOMAIN q |-> q[i] * q[i]]

\* The scaler left out: the raw counts go to the partitioning step.
fit_transformMutantRaw(F) ==
    [i \in DOMAIN F |-> [j \in DOMAIN F[i] |-> [num |-> F[i][j], var |-> 1]]]

(* StandardScaler().fit_transform(features): every column by itself,       *)
(* x |-> (x - mean) / std with the population std, a std of 0 replaced by  *)
(* 1.  For a column of n counts with sum S and sum of squares Q the scaled *)
(* value of x is (n x - S) / sqrt(n Q - S S); it is kept as the pair of    *)
(* num = n x - S and var = n Q - S S (num is 0 in a constant column).      *)
fit_transform(F) ==
    LET n == Len(F)
        columns == IF F = <<>> THEN {} ELSE DOMAIN F[1]
        S == [j \in columns |-> SumSeq(FeatureColumn(F, j))]
        Q == [j \in columns |-> SumSeq(Squares(FeatureColumn(F, j)))]
    IN [i \in DOMAIN F |->
           [j \in DOMAIN F[i] |->
               [num |-> n * F[i][j] - S[j], var |-> n * Q[j] - S[j] * S[j]]]]

\* scaled_features, the matrix handed to kmeans.fit_predict.
ScaledFeatures(t) == fit_transform(FeatureTable(t))

(* kmeans.fit_predict(scaled_features).  fit_predict gives every row the   *)
(* id of the centre nearest to its scaled vector, so the id is a function  *)
(* of the scaled vector; k-means++ seeds the centres on distinct points    *)
(* while there are any, and scikit-learn reports "number of distinct       *)
(* clusters found smaller than n_clusters" when there are fewer distinct   *)
(* points than centres.  Which partition and which integer ids come out    *)
(* depends on the seeded initialisation: every assignment with these       *)
(* properties is an outcome.  The result is the 'cluster' column, one id   *)
(* per row.                                                                *)
KMeansFitPredict(t, n_clusters) ==
    LET X == ScaledFeatures(t)
        D == {X[i] : i \in DOMAIN X}
        used == Min(n_clusters, Cardinality(D))
        assignments == {a \in [D -> 0 .. n_clusters - 1] :
                            Cardinality({a[x] : x \in D}) = used}
    IN {[i \in DOMAIN t |-> a[X[i]]] : a \in assignments}

\* A memo of calls without entries, and a memo with one more entry.
NoMemory == [x \in {} |-> 0]

Remember(memo, key, value) ==
    [x \in DOMAIN memo \cup {key} |-> IF x = key THEN value ELSE memo[x]]

\* KMeans without random_state: every call draws a fresh initialisation.
fit_predictMutantUnseeded(t, n_clusters, memo) ==
    KMeansFitPredict(t, n_clusters)

\* A fit kept between calls: the ids fitted for another, longer table.
fit_predictMutantShared(t, n_clusters, memo) ==
    LET longer == {key \in DOMAIN memo : Len(key[1]) > Len(t)}
    IN IF longer # {}
       THEN {[i \in DOMAIN t |-> memo[key][i]] : key \in longer}
       ELSE IF <<ScaledFeatures(t), n_clusters>> \in DOMAIN memo
       THEN {memo[<<ScaledFeatures(t), n_clusters>>]}
       ELSE KMeansFitPredict(t, n_clusters)

(* KMeans(n_clusters=n_clusters, random_state=42, n_init=10).fit_predict.  *)
(* With the seed fixed the initialisations are the same in every call, so  *)
(* the result is a function of the scaled features and n_clusters: a call  *)
(* with arguments seen before (memo) returns what it returned then.        *)
fit_predict(t, n_clusters, memo) ==
    LET key == <<ScaledFeatures(t), n_clusters>>
    IN IF key \in DOMAIN memo THEN {memo[key]}
       ELSE KMeansFitPredict(t, n_clusters)

\* The ratio taken upside down: enrolments per update.
UpdateRatioMutantInverted(row) ==
    [num |-> row.total_enrolments, den |-> row.total_updates + 1]

\* df['update_ratio'] = df['total_updates'] / (df['total_enrolments'] + 1)
UpdateRatio(row) ==
    [num |-> row.total_updates, den |-> row.total_enrolments + 1]

RECURSIVE Gcd(_, _)
Gcd(a, b) == IF b = 0 THEN a ELSE Gcd(b, a % b)

Lcm(a, b) == (a \div Gcd(a, b)) * b

RECURSIVE CommonDen(_)
\* The least common denominator of the update_ratio column.
CommonDen(t) ==
    IF t = <<>> THEN 1 ELSE Lcm(Head(t).update_ratio.den, CommonDen(Tail(t)))

RECURSIVE RatioSum(_, _, _)
\* scale times the sum of update_ratio over the rows of cluster c.
RatioSum(t, c, scale) ==
    IF t = <<>> THEN 0
    ELSE (IF Head(t).cluster = c
          THEN (scale * Head(t).update_ratio.num) \div Head(t).update_ratio.den
          ELSE 0) + RatioSum(Tail(t), c, scale)

ClusterIds(t) == {t[i].cluster : i \in DOMAIN t}

ClusterSize(t, c) == Cardinality({i \in DOMAIN t : t[i].cluster = c})

(* groupby('cluster')['update_ratio'].mean(): the mean of each cluster as  *)
(* the fraction num / den, with one common numerator scale for the table.  *)
ClusterMeans(t) ==
    LET scale == CommonDen(t)
    IN [c \in ClusterIds(t) |->
          [num |-> RatioSum(t, c, scale), den |-> ClusterSize(t, c)]]

\* A fraction num / den with den > 0.
Frac(n, d) == [num |-> n, den |-> d]

\* Comparison of two fractions with positive denominators.
FracLess(p, q) == p.num * q.den < q.num * p.den

\* Two clusters have the same mean.
HasTie(means) ==
    \E c, d \in DOMAIN means :
        c # d /\ ~FracLess(means[c], means[d]) /\ ~FracLess(means[d], means[c])

\* The orders in which a sort can leave the ids 0 .. n_clusters - 1.
TieOrders(n_clusters) ==
    {r \in [0 .. n_clusters - 1 -> 0 .. n_clusters - 1] :
        \A a, b \in 0 .. n_clusters - 1 : a # b => r[a] # r[b]}

\* A sort that orders equal means afresh in every call.
sort_tiesMutantFresh(means, n_clusters, known) ==
    IF HasTie(means) THEN TieOrders(n_clusters) ELSE {known}

(* The order among equal means.  Series.sort_values() sorts with           *)
(* kind='quicksort', which is not a stable sort: numpy sorts so few        *)
(* entries by insertion (equal means stay in ascending id order) or, in    *)
(* builds with vectorised sorting, by a fixed network of compare-exchange  *)
(* steps.  Either way the order is fixed for the build: it is one of       *)
(* TieOrders, chosen when equal means are first sorted and kept (known).   *)
sort_ties(means, n_clusters, known) ==
    IF DOMAIN known # {} THEN {known}
    ELSE IF HasTie(means) THEN TieOrders(n_clusters)
    ELSE {known}

\* The same sort with ascending=False.
SortValuesMutantDescending(means, rank) ==
    LET ids == DOMAIN means
        before == [c \in ids |->
                     Cardinality({d \in ids :
                        \/ FracLess(means[c], means[d])
                        \/ (/\ d # c /\ ~FracLess(means[d], means[c])
                            /\ rank[d] < rank[c])})]
    IN [j \in 1 .. Cardinality(ids) |->
            CHOOSE c \in ids : before[c] = j - 1]

(* cluster_stats = ....mean().sort_values(): the cluster ids in ascending  *)
(* order of their mean, equal means in the order of rank.                  *)
SortValues(means, rank) ==
    LET ids == DOMAIN means
        before == [c \in ids |->
                     Cardinality({d \in ids :
                        \/ FracLess(means[d], means[c])
                        \/ (/\ d # c /\ ~FracLess(means[c], means[d])
                            /\ rank[d] < rank[c])})]
    IN [j \in 1 .. Cardinality(ids) |->
            CHOOSE c \in ids : before[c] = j - 1]

\* A mapping that takes id 0 for High Risk, 1 for Medium and 2 for Low.
RiskMappingMutantById(index) ==
    [c \in {index[1], index[2], index[3]} |->
        IF c = 2 THEN LowRisk ELSE IF c = 1 THEN MediumRisk ELSE HighRisk]

(* risk_mapping = {cluster_stats.index[0]: ..., index[1]: ..., index[2]:   *)
(* ...}: the mapping as a function on the three first ids of the index.    *)
(* Only defined when the index has three entries.                          *)
RiskMapping(index) ==
    [c \in {index[1], index[2], index[3]} |->
        IF c = index[3] THEN LowRisk
        ELSE IF c = index[2] THEN MediumRisk
        ELSE HighRisk]

\* df['Risk_Profile'] = df['cluster'].map(risk_mapping): NaN when unmapped.

NaNLabel == "NaN"

MapCluster(mapping, c) ==
    IF c \in DOMAIN mapping THEN mapping[c] ELSE NaNLabel

(* perform_cluster_analysis(df, n_clusters) with km the column that        *)
(* kmeans.fit_predict returned and known the order of equal means seen so  *)
(* far: the set of its outcomes.  The columns are assigned to the table    *)
(* object that was passed in; an outcome names the exception raised (or    *)
(* NoError), the state of that object when the call ended and the order of *)
(* equal means known after the call.  With fewer than three clusters the   *)
(* call raises at cluster_stats.index[1] or [2] whatever the sort did.     *)
perform_cluster_analysis(t, n_clusters, km, known) ==
    IF t = <<>> THEN {[raised |-> NoError, table |-> t, rank |-> known]}
    ELSE
    LET t1 == [i \in DOMAIN t |-> WithColumn(t[i], "cluster", km[i])]
        t2 == [i \in DOMAIN t |->
                 WithColumn(t1[i], "update_ratio", UpdateRatio(t1[i]))]
        means == ClusterMeans(t2)
    IN IF Cardinality(DOMAIN means) < 3
       THEN {[raised |-> "IndexError", table |-> t2, rank |-> known]}
       ELSE {LET risk_mapping == RiskMapping(SortValues(means, rank))
             IN [raised |-> NoError,
                 table |-> [i \in DOMAIN t |->
                              WithColumn(t2[i], "Risk_Profile",
                                 MapCluster(risk_mapping, t2[i].cluster))],
                 rank |-> rank]
             : rank \in sort_ties(means, n_clusters, known)}

-----------------------------------------------------------------------------
(* insight_6.py: main, one run of the script on the cached master table.   *)

\* The total_enrolments and the total_updates a unit of the table can have.
EnrolCounts == {0, 1}
UpdateCounts == 0 .. MaxUpdates

AllStates == <<"A", "l", "l", " ", "S", "t", "a", "t", "e", "s">>

\* The units of the master table: pincode i lies in this state and district.
StateOf(i) == IF i = 1 THEN <<"A">> ELSE <<"B">>
DistrictOf(i) == IF i = 1 THEN <<"a">> ELSE IF i <= 3 THEN <<"b">> ELSE <<"d">>

\* Lexicographic order on feature pairs.
FeaturesLeq(r1, r2) ==
    \/ r1.total_enrolments < r2.total_enrolments
    \/ /\ r1.total_enrolments = r2.total_enrolments
       /\ r1.total_updates <= r2.total_updates

(* The tables load_and_process_data can return (st.cache_data keeps the    *)
(* result across runs): one row per (state, district, pincode), the rows   *)
(* in groupby order.  Pincodes are numbered in non-decreasing order of     *)
(* their feature pair; main reads total_enrolments and total_updates, and *)
(* the updates of a unit are listed as biometric updates.                  *)
MasterTables ==
    UNION {
      {t \in [1 .. n -> [total_enrolments : EnrolCounts,
                           total_updates : UpdateCounts]] :
          \A i \in 1 .. n - 1 : FeaturesLeq(t[i], t[i + 1])}
      : n \in 0 .. MaxRows}

MasterRow(i, f) ==
    [state |-> StateOf(i), district |-> DistrictOf(i), pincode |-> i,
     total_enrolments |-> f.total_enrolments,
     total_bio_updates |-> f.total_updates,
     total_demo_updates |-> 0,
     total_updates |-> f.total_updates]

Unique(t, col) == {t[i][col] : i \in DOMAIN t}

\* The widget values a run can see: selectbox, multiselect and slider.
Selections(t) ==
    {[selected_state |-> st, selected_district |-> ds, min_enrolments |-> m] :
        st \in {AllStates} \cup Unique(t, "state"),
        ds \in SUBSET Unique(t, "district"),
        m \in EnrolCounts}

ValidSelection(t, s) ==
    IF s.selected_state = AllStates
    THEN s.selected_district = {}
    ELSE s.selected_district \subseteq
            {t[i].district : i \in {j \in DOMAIN t :
                                      t[j].state = s.selected_state}}

\* main, "Apply Filters Logic" and "Apply Sensitivity Filter".
ApplyFilters(t, s) ==
    LET InState(r) == r.state = s.selected_state
        InDistrict(r) == r.district \in s.selected_district
        Enough(r) == r.total_enrolments >= s.min_enrolments
        df_filtered_pre ==
            IF s.selected_state # AllStates THEN SelectSeq(t, InState) ELSE t
        by_place ==
            IF s.selected_state # AllStates
            THEN IF s.selected_district # {}
                 THEN SelectSeq(df_filtered_pre, InDistrict)
                 ELSE df_filtered_pre
            ELSE t
    IN SelectSeq(by_place, Enough)

\* "if len(df_filtered) > 5"
EnoughRowsMutantOne(f) == Len(f) > 1

EnoughRowsMutantGeq(f) == Len(f) >= MinRows

EnoughRows(f) == Len(f) > MinRows

(* The history of clustered runs: for each filtered table that main has    *)
(* handed to perform_cluster_analysis, the table as the first such run     *)
(* left it, and whether a later run was made on the same filtered table.   *)
Ran(history, input, output) ==
    IF input \in DOMAIN history
    THEN [history EXCEPT ![input].again = TRUE]
    ELSE Remember(history, input, [table |-> output, again |-> FALSE])

NoSelection ==
    [selected_state |-> AllStates, selected_district |-> {},
     min_enrolments |-> 0]

InitMain ==
    /\ script = "insight_6"
    /\ pc = "start"
    /\ df_enrol = <<>> /\ df_bio = <<>> /\ df_demo = <<>>
    /\ \E t \in MasterTables : df = [i \in DOMAIN t |-> MasterRow(i, t[i])]
    /\ sel = NoSelection
    /\ df_filtered = <<>>
    /\ df_analyzed = <<>>
    /\ error = NoError
    /\ fitted = NoMemory
    /\ missing = {}
    /\ audit_df = <<>>
    /\ OthersIdle
    /\ tie_rank = NoMemory
    /\ first_run = NoMemory

\* "if df.empty: return"
MainEmpty ==
    /\ script = "insight_6" /\ pc = "start"
    /\ df = <<>>
    /\ pc' = "returned"
    /\ UNCHANGED memory
    /\ UNCHANGED others
    /\ UNCHANGED <<script, missing, audit_df,
                   df_enrol, df_bio, df_demo, df, sel, df_filtered,
                   df_analyzed, error>>

(* "else: df_analyzed = df_filtered;                                       *)
(*         df_analyzed['Risk_Profile'] = 'Insufficient Data for ML'".      *)
(* df_analyzed and df_filtered name one table object.                      *)
MainInsufficient ==
    /\ script = "insight_6" /\ pc = "start"
    /\ df # <<>>
    /\ \E s \in Selections(df) :
         /\ ValidSelection(df, s)
         /\ LET f == ApplyFilters(df, s)
                labelled == [i \in DOMAIN f |->
                               WithColumn(f[i], "Risk_Profile", Insufficient)]
            IN /\ ~EnoughRows(f)
               /\ sel' = s
               /\ df_filtered' = labelled
               /\ df_analyzed' = labelled
    /\ pc' = "rendered"
    /\ UNCHANGED memory
    /\ UNCHANGED others
    /\ UNCHANGED <<script, missing, audit_df,
                   df_enrol, df_bio, df_demo, df, error>>

(* "if len(df_filtered) > 5: df_analyzed =                                 *)
(*  perform_cluster_analysis(df_filtered)" returning normally.             *)
MainClustered ==
    /\ script = "insight_6" /\ pc = "start"
    /\ df # <<>>
    /\ \E s \in Selections(df) :
         /\ ValidSelection(df, s)
         /\ LET f == ApplyFilters(df, s)
                key == <<ScaledFeatures(f), N_CLUSTERS>>
            IN /\ EnoughRows(f)
               /\ \E km \in fit_predict(f, N_CLUSTERS, fitted) :
                    \E res \in perform_cluster_analysis(f, N_CLUSTERS, km,
                                                        tie_rank) :
                       /\ res.raised = NoError
                       /\ sel' = s
                       /\ df_filtered' = res.table
                       /\ df_analyzed' = res.table
                       /\ fitted' = Remember(fitted, key, km)
                       /\ tie_rank' = res.rank
                       /\ first_run' = Ran(first_run, f, res.table)
    /\ pc' = "rendered"
    /\ UNCHANGED others
    /\ UNCHANGED <<script, missing, audit_df,
                   df_enrol, df_bio, df_demo, df, error>>

(* The same call raising: the exception leaves main, df_analyzed is never  *)
(* bound and nothing below the call is rendered.                           *)
MainRaises ==
    /\ script = "insight_6" /\ pc = "start"
    /\ df # <<>>
    /\ \E s \in Selections(df) :
         /\ ValidSelection(df, s)
         /\ LET f == ApplyFilters(df, s)
                key == <<ScaledFeatures(f), N_CLUSTERS>>
            IN /\ EnoughRows(f)
               /\ \E km \in fit_predict(f, N_CLUSTERS, fitted) :
                    \E res \in perform_cluster_analysis(f, N_CLUSTERS, km,
                                                        tie_rank) :
                       /\ res.raised # NoError
                       /\ sel' = s
                       /\ df_filtered' = res.table
                       /\ error' = res.raised
                       /\ fitted' = Remember(fitted, key, km)
                       /\ tie_rank' = res.rank
                       /\ first_run' = Ran(first_run, f, res.table)
    /\ pc' = "raised"
    /\ UNCHANGED others
    /\ UNCHANGED <<script, missing, audit_df,
                   df_enrol, df_bio, df_demo, df, df_analyzed>>

\* Suspicion_Score = (total_enrolments * 10) / (total_updates + 1)
SuspicionScore(row) == Frac(row.total_enrolments * 10, row.total_updates + 1)

\* The sort in ascending order of the score.
SortByScoreMutantAscending(t) ==
    {[i \in DOMAIN t |-> t[q[i]]] :
        q \in {r \in [DOMAIN t -> DOMAIN t] :
                  /\ \A i, j \in DOMAIN t : i # j => r[i] # r[j]
                  /\ \A i, j \in DOMAIN t :
                        i < j => ~FracLess(t[r[j]].Suspicion_Score,
                                           t[r[i]].Suspicion_Score)}}

(* audit_df.sort_values('Suspicion_Score', ascending=False): the rows in   *)
(* an order of non-increasing score; the sort is not a stable one, so rows *)
(* of equal score can come out in any order.                               *)
SortByScore(t) ==
    {[i \in DOMAIN t |-> t[q[i]]] :
        q \in {r \in [DOMAIN t -> DOMAIN t] :
                  /\ \A i, j \in DOMAIN t : i # j => r[i] # r[j]
                  /\ \A i, j \in DOMAIN t :
                        i < j => ~FracLess(t[r[i]].Suspicion_Score,
                                           t[r[j]].Suspicion_Score)}}

(* "Audit List Generation", the last section of main: the High Risk rows   *)
(* of df_analyzed, scored and sorted when there are any.                   *)
Audit ==
    /\ script = "insight_6" /\ pc = "rendered"
    /\ LET IsHigh(r) == r.Risk_Profile = HighRisk
           high == SelectSeq(df_analyzed, IsHigh)
           scored == [i \in DOMAIN high |->
                        WithColumn(high[i], "Suspicion_Score",
                                   SuspicionScore(high[i]))]
       IN IF high = <<>> THEN audit_df' = <<>>
          ELSE audit_df' \in SortByScore(scored)
    /\ pc' = "audited"
    /\ UNCHANGED memory
    /\ UNCHANGED others
    /\ UNCHANGED <<script, missing, df_enrol, df_bio, df_demo, df, sel,
                   df_filtered, df_analyzed, error>>

(* A widget change makes Streamlit run the script again from the top, in   *)
(* the same server process: what the process has computed stays computed.  *)
Rerun ==
    /\ script = "insight_6" /\ pc \in {"rendered", "audited", "raised"}
    /\ pc' = "start"
    /\ df_filtered' = <<>>
    /\ df_analyzed' = <<>>
    /\ error' = NoError
    /\ sel' = NoSelection
    /\ audit_df' = <<>>
    /\ UNCHANGED memory
    /\ UNCHANGED others
    /\ UNCHANGED <<script, missing, df_enrol, df_bio, df_demo, df>>

(* The server is started anew and a session runs the script from the top:  *)
(* nothing of the earlier process is left but the data files.              *)
Restart ==
    /\ script = "insight_6" /\ pc \in {"audited", "raised"}
    /\ pc' = "start"
    /\ df_filtered' = <<>>
    /\ df_analyzed' = <<>>
    /\ error' = NoError
    /\ sel' = NoSelection
    /\ audit_df' = <<>>
    /\ fitted' = NoMemory
    /\ tie_rank' = NoMemory
    /\ first_run' = NoMemory
    /\ UNCHANGED others
    /\ UNCHANGED <<script, missing, df_enrol, df_bio, df_demo, df>>

\* Single runs of main, each in a server process of its own.
Next ==
    \/ MainEmpty \/ MainInsufficient \/ MainClustered \/ MainRaises
    \/ Audit \/ Restart

Spec == InitMain /\ [][Next]_vars

(* Runs of the cluster-and-label pipeline one after the other in one       *)
(* server process, on a master table of MaxRows units (so that some        *)
(* selection is clustered), the first two of them without enrolments and   *)
(* updates.  The runs that take the sentinel branch do not call the        *)
(* clusterer and leave what the process remembers as it is.                *)
InitRuns ==
    /\ InitMain
    /\ Len(df) = MaxRows
    /\ \A i \in 1 .. 2 : Features(df[i]) = <<0, 0>>

NextRuns == MainClustered \/ MainRaises \/ Rerun

SpecRuns == InitRuns /\ [][NextRuns]_vars

(* Runs for different filter selections in one server process: a master    *)
(* table of MaxRows + 1 units, of which the units of state B alone are     *)
(* enough to be clustered, so that selections with different filtered rows *)
(* reach the clusterer one after the other.  The first five units have no  *)
(* enrolments and no updates, and the units have at most N_CLUSTERS        *)
(* different feature pairs.                                                *)
InitTwo ==
    /\ script = "insight_6"
    /\ pc = "start"
    /\ df_enrol = <<>> /\ df_bio = <<>> /\ df_demo = <<>>
    /\ \E t \in [1 .. MaxRows + 1 -> [total_enrolments : EnrolCounts,
                                       total_updates : UpdateCounts]] :
          /\ \A i \in 1 .. MaxRows : FeaturesLeq(t[i], t[i + 1])
          /\ \A i \in 1 .. 5 : Features(t[i]) = <<0, 0>>
          /\ Cardinality(DistinctFeatures(t)) <= N_CLUSTERS
          /\ df = [i \in DOMAIN t |-> MasterRow(i, t[i])]
    /\ sel = NoSelection
    /\ df_filtered = <<>>
    /\ df_analyzed = <<>>
    /\ error = NoError
    /\ missing = {}
    /\ audit_df = <<>>
    /\ OthersIdle
    /\ fitted = NoMemory
    /\ tie_rank = NoMemory
    /\ first_run = NoMemory

NextTwo == MainClustered \/ MainRaises \/ Rerun

SpecTwo == InitTwo /\ [][NextTwo]_vars

(* The worked example: three districts with the (enrolment, update) pairs  *)
(* (1000, 50), (1000, 2000) and (10, 5).  The master table has one row per *)
(* pincode; every district has one pincode, or every district has two      *)
(* pincodes with the figures of the district, in any order of the rows.    *)
ExampleDistricts ==
    <<[total_enrolments |-> 1000, total_updates |-> 50],
      [total_enrolments |-> 1000, total_updates |-> 2000],
      [total_enrolments |-> 10, total_updates |-> 5]>>

ExampleNames == <<(<<"a">>), (<<"b">>), (<<"d">>)>>

\* The row of pincode i, a pincode of example district k.
ExampleRow(i, k) ==
    [state |-> <<"A">>, district |-> ExampleNames[k], pincode |-> i,
     total_enrolments |-> ExampleDistricts[k].total_enrolments,
     total_bio_updates |-> ExampleDistricts[k].total_updates,
     total_demo_updates |-> 0,
     total_updates |-> ExampleDistricts[k].total_updates]

InitExample ==
    /\ script = "insight_6"
    /\ pc = "start"
    /\ df_enrol = <<>> /\ df_bio = <<>> /\ df_demo = <<>>
    /\ \E copies \in 1 .. 2 :
         \E q \in [1 .. 3 * copies -> DOMAIN ExampleDistricts] :
            /\ \A k \in DOMAIN ExampleDistricts :
                  Cardinality({i \in DOMAIN q : q[i] = k}) = copies
            /\ df = [i \in DOMAIN q |-> ExampleRow(i, q[i])]
    /\ sel = NoSelection
    /\ df_filtered = <<>>
    /\ df_analyzed = <<>>
    /\ error = NoError
    /\ missing = {}
    /\ audit_df = <<>>
    /\ OthersIdle
    /\ fitted = NoMemory
    /\ tie_rank = NoMemory
    /\ first_run = NoMemory

(* perform_cluster_analysis called on the table as it is, n_clusters at    *)
(* its default, as a test of the function calls it.                        *)
CallClusterer ==
    /\ script = "insight_6" /\ pc = "start"
    /\ \E km \in fit_predict(df, N_CLUSTERS, fitted) :
         \E res \in perform_cluster_analysis(df, N_CLUSTERS, km, tie_rank) :
            /\ df_analyzed' = res.table
            /\ error' = res.raised
            /\ fitted' = Remember(fitted, <<ScaledFeatures(df), N_CLUSTERS>>, km)
            /\ tie_rank' = res.rank
    /\ pc' = "called"
    /\ UNCHANGED others
    /\ UNCHANGED <<script, missing, audit_df,
                   df_enrol, df_bio, df_demo, df, sel,
                   df_filtered, first_run>>

NextExample == MainInsufficient \/ MainClustered \/ CallClusterer

SpecExample == InitExample /\ [][NextExample]_vars

-----------------------------------------------------------------------------
(* The loaders: insight_6.py load_and_process_data, insight_5.py           *)
(* process_data and insight_7.py load_and_process_data, from the records   *)
(* of the CSV files to the master table.                                   *)

EnrolCols == <<"age_0_5", "age_5_17", "age_18_greater">>
BioCols == <<"bio_age_5_17", "bio_age_17_">>
DemoCols == <<"demo_age_5_17", "demo_age_17_">>

ColSet(cols) == {cols[j] : j \in DOMAIN cols}

\* The counts one record can carry: at most one registration in all.
EnrolCounts3 ==
    {c \in [ColSet(EnrolCols) -> {0, 1}] : RowSum(c, EnrolCols) <= 1}
BioCounts2 == {c \in [ColSet(BioCols) -> {0, 1}] : RowSum(c, BioCols) <= 1}
DemoCounts2 == {c \in [ColSet(DemoCols) -> {0, 1}] : RowSum(c, DemoCols) <= 1}

\* The spellings of state names in the files read by insight_5 and insight_7.
StateSpellings == {<<"A", "B">>, <<"A", "b">>, <<"b", " ">>}

\* The state names and pincodes in the files read by insight_6.
StateNames6 == {<<"A", "B">>, <<"A", "b">>}
Pincodes == {1, 2}

TheDistrict == <<"D">>

Record(cat, state, pincode, counts) ==
    [f \in {"cat", "state", "district", "pincode"} \cup DOMAIN counts |->
        CASE f = "cat" -> cat
          [] f = "state" -> state
          [] f = "district" -> TheDistrict
          [] f = "pincode" -> pincode
          [] OTHER -> counts[f]]

(* The records a file of the script can hold.  insight_6 groups the update *)
(* records by pincode alone and never reads their state.                   *)
RecordKinds(sc) ==
    IF sc = "insight_6"
    THEN {Record("enrol", st, p, c) :
              st \in StateNames6, p \in Pincodes, c \in EnrolCounts3}
         \cup {Record("bio", <<"A", "b">>, p, c) :
                  p \in Pincodes, c \in BioCounts2}
         \cup {Record("demo", <<"A", "b">>, p, c) :
                  p \in Pincodes, c \in DemoCounts2}
    ELSE {Record("enrol", st, 1, c) : st \in StateSpellings, c \in EnrolCounts3}
         \cup {Record("bio", st, 1, c) : st \in StateSpellings, c \in BioCounts2}
         \cup {Record("demo", st, 1, c) :
                  st \in StateSpellings, c \in DemoCounts2}

RECURSIVE SetToSeq(_)
SetToSeq(S) ==
    IF S = {} THEN <<>>
    ELSE LET x == CHOOSE y \in S : TRUE IN <<x>> \o SetToSeq(S \ {x})

RECURSIVE AscendingSeqs(_, _, _)
\* The non-decreasing sequences of length n over lo .. hi.
AscendingSeqs(n, lo, hi) ==
    IF n = 0 THEN {<<>>}
    ELSE UNION {{<<k>> \o q : q \in AscendingSeqs(n - 1, k, hi)} : k \in lo .. hi}

(* The contents of the files of one load: at most MaxRecs records, the     *)
(* order of the records being of no effect on a groupby sum.               *)
RawInputs(sc) ==
    LET kinds == SetToSeq(RecordKinds(sc))
    IN UNION {{[i \in DOMAIN q |-> kinds[q[i]]] :
                  q \in AscendingSeqs(n, 1, Len(kinds))} : n \in 0 .. MaxRecs}

\* pd.concat([pd.read_csv(f) for f in files]) of one category.
ReadFiles(records, cat) ==
    LET OfCat(r) == r.cat = cat
        rows == SelectSeq(records, OfCat)
    IN [i \in DOMAIN rows |-> [f \in DOMAIN rows[i] \ {"cat"} |-> rows[i][f]]]

Scripts == {"insight_5", "insight_6", "insight_7"}

InitLoad ==
    /\ script \in Scripts
    /\ pc = "loading"
    /\ \E records \in RawInputs(script) :
         /\ df_enrol = ReadFiles(records, "enrol")
         /\ df_bio = ReadFiles(records, "bio")
         /\ df_demo = ReadFiles(records, "demo")
    /\ df = <<>>
    /\ sel = NoSelection
    /\ df_filtered = <<>>
    /\ df_analyzed = <<>>
    /\ error = NoError
    /\ fitted = NoMemory
    /\ missing = {}
    /\ audit_df = <<>>
    /\ OthersIdle
    /\ tie_rank = NoMemory
    /\ first_run = NoMemory

(* insight_6.py load_and_process_data. *)

Keys6 == <<"state", "district", "pincode">>

\* The merge of step 3 with how='left'.
MasterMerge6(enrol_grouped, bio_grouped, demo_grouped) ==
    LET m1 == FillNa0(MergeLeft(enrol_grouped, bio_grouped, <<"pincode">>,
                                {"total_bio_updates"}),
                      {"total_bio_updates"})
    IN FillNa0(MergeLeft(m1, demo_grouped, <<"pincode">>,
                         {"total_demo_updates"}),
               {"total_bio_updates", "total_demo_updates"})

load_and_process_data6(enrol, bio, demo) ==
    LET e1 == WithRowSum(enrol, "total_enrolments", EnrolCols)
        enrol_grouped == GroupBySum(e1, Keys6, {"total_enrolments"})
        b1 == WithRowSum(bio, "total_bio_updates", BioCols)
        d1 == WithRowSum(demo, "total_demo_updates", DemoCols)
        bio_grouped == GroupBySum(b1, <<"pincode">>, {"total_bio_updates"})
        demo_grouped == GroupBySum(d1, <<"pincode">>, {"total_demo_updates"})
        master_df == MasterMerge6(enrol_grouped, bio_grouped, demo_grouped)
    IN WithRowSum(master_df, "total_updates",
                  <<"total_bio_updates", "total_demo_updates">>)

\* Some cell of the count columns of the frame is text.
HasUnparsable(t, cols) ==
    \E i \in DOMAIN t : \E j \in DOMAIN cols : t[i][cols[j]] = Unparsable

(* The exception that ends the try block of load_and_process_data, in the  *)
(* order of its statements: read the enrolment files, add their columns,   *)
(* read the biometric and the demographic files, add their columns.        *)
(* read_csv raises FileNotFoundError for a file that is not there; the     *)
(* addition of a text column and a number column raises TypeError.         *)
Failure6(gone, enrol, bio, demo) ==
    IF "enrol" \in gone THEN "FileNotFoundError"
    ELSE IF HasUnparsable(enrol, EnrolCols) THEN "TypeError"
    ELSE IF "bio" \in gone \/ "demo" \in gone THEN "FileNotFoundError"
    ELSE IF HasUnparsable(bio, BioCols) \/ HasUnparsable(demo, DemoCols)
         THEN "TypeError"
    ELSE NoError

\* main: "df = load_and_process_data()"; the script goes on with the filters.
Load6 ==
    /\ script = "insight_6" /\ pc = "loading"
    /\ Failure6(missing, df_enrol, df_bio, df_demo) = NoError
    /\ df' = load_and_process_data6(df_enrol, df_bio, df_demo)
    /\ pc' = "start"
    /\ UNCHANGED memory
    /\ UNCHANGED others
    /\ UNCHANGED <<script, missing, audit_df,
                   df_enrol, df_bio, df_demo, sel, df_filtered,
                   df_analyzed, error>>

(* "except FileNotFoundError as e: st.error(...); return pd.DataFrame()":   *)
(* the message is shown and main goes on with an empty frame.              *)
Load6Missing ==
    /\ script = "insight_6" /\ pc = "loading"
    /\ Failure6(missing, df_enrol, df_bio, df_demo) = "FileNotFoundError"
    /\ df' = <<>>
    /\ error' = "FileNotFoundError"
    /\ pc' = "start"
    /\ UNCHANGED memory
    /\ UNCHANGED others
    /\ UNCHANGED <<script, missing, audit_df,
                   df_enrol, df_bio, df_demo, sel,
                   df_filtered, df_analyzed>>

(* Any other exception is not handled in load_and_process_data nor in     *)
(* main: the run ends with it and no table is returned.                   *)
Load6Raises ==
    /\ script = "insight_6" /\ pc = "loading"
    /\ Failure6(missing, df_enrol, df_bio, df_demo)
          \notin {NoError, "FileNotFoundError"}
    /\ error' = Failure6(missing, df_enrol, df_bio, df_demo)
    /\ pc' = "raised"
    /\ UNCHANGED memory
    /\ UNCHANGED others
    /\ UNCHANGED <<script, missing, audit_df,
                   df_enrol, df_bio, df_demo, df, sel,
                   df_filtered, df_analyzed>>

(* insight_5.py process_data. *)

Keys2 == <<"state", "district">>

\* df[col] = df[col].str.title() for the two name columns.
TitleNames(t) ==
    [i \in DOMAIN t |->
        [f \in DOMAIN t[i] |->
            IF f \in {"state", "district"} THEN Title(t[i][f]) ELSE t[i][f]]]

\* "Merge datasets": outer for the two update tables, left for enrolments.
MasterMerge5(bio_agg, demo_agg, enrol_agg) ==
    LET bcols == ColSet(BioCols) \cup {"Total_Biometric_Updates"}
        dcols == ColSet(DemoCols) \cup {"Total_Demographic_Updates"}
        m1 == MergeOuter(bio_agg, demo_agg, Keys2, bcols, dcols)
        right == Project(enrol_agg, {"state", "district", "Total_Enrolments"})
    IN FillNa0(MergeLeft(m1, right, Keys2, {"Total_Enrolments"}),
               bcols \cup dcols \cup {"Total_Enrolments"})

process_data(bio, demo, enrol) ==
    LET bio_agg == WithRowSum(GroupBySum(bio, Keys2, ColSet(BioCols)),
                              "Total_Biometric_Updates", BioCols)
        demo_agg == WithRowSum(GroupBySum(demo, Keys2, ColSet(DemoCols)),
                               "Total_Demographic_Updates", DemoCols)
        enrol_agg == WithRowSum(GroupBySum(enrol, Keys2, ColSet(EnrolCols)),
                                "Total_Enrolments", EnrolCols)
        df_master == MasterMerge5(bio_agg, demo_agg, enrol_agg)
        with_index ==
            [i \in DOMAIN df_master |->
                WithColumn(df_master[i], "Friction_Index",
                           Frac(df_master[i].Total_Biometric_Updates,
                                df_master[i].Total_Demographic_Updates + 1))]
    IN TitleNames(with_index)

\* "df_analysis = process_data(df_bio_raw, df_demo_raw, df_enrol_raw)"
Process5 ==
    /\ script = "insight_5" /\ pc = "loading"
    /\ df' = process_data(df_bio, df_demo, df_enrol)
    /\ pc' = "loaded"
    /\ UNCHANGED memory
    /\ UNCHANGED others
    /\ UNCHANGED <<script, missing, audit_df,
                   df_enrol, df_bio, df_demo, sel, df_filtered,
                   df_analyzed, error>>

(* insight_7.py load_and_process_data. *)

ClusterA == "Cluster A: Hyper-Correction (Identity Anxiety)"
ClusterB == "Cluster B: Digital Dormancy (Passive Compliance)"
ClusterC == "Cluster C: Balanced Economy"

\* The boundaries 2.5 and 0.2 of classify_district, as fractions.
UpperBoundary == Frac(5, 2)
LowerBoundary == Frac(1, 5)

\* "ratio > 2.5" written as ">=".
classify_districtMutantGeq(row) ==
    LET ratio == row.DBDI
    IN IF ~FracLess(ratio, UpperBoundary) THEN ClusterA
       ELSE IF FracLess(ratio, LowerBoundary) THEN ClusterB
       ELSE ClusterC

(* classify_district(row).  The DBDI of integer counts d / b is compared   *)
(* exactly: the quotient 2.5 is a double, d / b rounds to it only when     *)
(* d / b = 2.5, and d / b rounds to the double of the literal 0.2 only     *)
(* when d / b = 0.2 for counts below 10^15.                                *)
classify_district(row) ==
    LET ratio == row.DBDI
    IN IF FracLess(UpperBoundary, ratio) THEN ClusterA
       ELSE IF FracLess(ratio, LowerBoundary) THEN ClusterB
       ELSE ClusterC

\* "Basic Cleanup & Standardization": .str.title().str.strip() on the names.
Standardize7(t) ==
    [i \in DOMAIN t |->
        [f \in DOMAIN t[i] |->
            IF f \in {"state", "district"}
            THEN Strip(Title(t[i][f])) ELSE t[i][f]]]

\* "Master Merge: Outer join to ensure no district is left behind".
MasterMerge7(bio_grp, demo_grp, enrol_grp) ==
    LET bcols == ColSet(BioCols)
        dcols == ColSet(DemoCols)
        m1 == FillNa0(MergeOuter(bio_grp, demo_grp, Keys2, bcols, dcols),
                      bcols \cup dcols)
    IN FillNa0(MergeOuter(m1, enrol_grp, Keys2, bcols \cup dcols,
                          {"age_18_greater"}),
               bcols \cup dcols \cup {"age_18_greater"})

\* The function up to the master merge (an empty frame groups to no rows).
aggregate7(bio, demo, enrol) ==
    LET bio_grp == GroupBySum(Standardize7(bio), Keys2, ColSet(BioCols))
        demo_grp == GroupBySum(Standardize7(demo), Keys2, ColSet(DemoCols))
        enrol_grp == GroupBySum(Standardize7(enrol), Keys2, {"age_18_greater"})
    IN MasterMerge7(bio_grp, demo_grp, enrol_grp)

\* master['bio_age_17_'] = master['bio_age_17_'].replace(0, 1)
ReplaceZero(t, col) ==
    [i \in DOMAIN t |->
        [t[i] EXCEPT ![col] = IF t[i][col] = 0 THEN 1 ELSE t[i][col]]]

\* "THE CORE ALGORITHM" and "Classification Logic" on a master with rows.
classify7(master) ==
    LET m1 == ReplaceZero(master, "bio_age_17_")
        m2 == [i \in DOMAIN m1 |->
                 WithColumn(m1[i], "DBDI",
                            Frac(m1[i].demo_age_17_, m1[i].bio_age_17_))]
        m3 == [i \in DOMAIN m2 |->
                 WithColumn(m2[i], "Total_Activity",
                            m2[i].demo_age_17_ + m2[i].bio_age_17_)]
    IN [i \in DOMAIN m3 |->
          WithColumn(m3[i], "Cluster", classify_district(m3[i]))]

\* Reading, cleanup, aggregation and master merge.
Aggregate7 ==
    /\ script = "insight_7" /\ pc = "loading"
    /\ df' = aggregate7(df_bio, df_demo, df_enrol)
    /\ pc' = "merged"
    /\ UNCHANGED memory
    /\ UNCHANGED others
    /\ UNCHANGED <<script, missing, audit_df,
                   df_enrol, df_bio, df_demo, sel, df_filtered,
                   df_analyzed, error>>

(* The index, the classification and the return.  On a master without rows *)
(* master.apply(..., axis=1) returns a frame, the assignment of it to the  *)
(* one column 'Cluster' raises ValueError, and the handler of the function *)
(* reports it and returns an empty frame.                                  *)
Classify7 ==
    /\ script = "insight_7" /\ pc = "merged"
    /\ IF df = <<>>
       THEN /\ error' = "ValueError"
            /\ df' = <<>>
       ELSE /\ df' = classify7(df)
            /\ UNCHANGED error
    /\ pc' = "loaded"
    /\ UNCHANGED memory
    /\ UNCHANGED others
    /\ UNCHANGED <<script, missing, audit_df,
                   df_enrol, df_bio, df_demo, sel, df_filtered,
                   df_analyzed>>

NextLoad == Load6 \/ Process5 \/ Aggregate7 \/ Classify7

SpecLoad == InitLoad /\ [][NextLoad]_vars

(* Runs of insight_7 on files that hold one district: at most one          *)
(* biometric and one demographic record of it, with adult counts up to     *)
(* MaxAgg.                                                                  *)
OneRecord(cat, cols, col, n) ==
    Record(cat, <<"A", "b">>, 1, [c \in ColSet(cols) |-> IF c = col THEN n ELSE 0])

Init7 ==
    /\ script = "insight_7"
    /\ pc = "loading"
    /\ df_enrol = <<>>
    /\ df_bio \in {<<>>} \cup
          {ReadFiles(<<OneRecord("bio", BioCols, "bio_age_17_", n)>>, "bio") :
              n \in 0 .. MaxAgg}
    /\ df_demo \in {<<>>} \cup
          {ReadFiles(<<OneRecord("demo", DemoCols, "demo_age_17_", n)>>, "demo") :
              n \in 0 .. MaxAgg}
    /\ df = <<>>
    /\ sel = NoSelection
    /\ df_filtered = <<>>
    /\ df_analyzed = <<>>
    /\ error = NoError
    /\ fitted = NoMemory
    /\ missing = {}
    /\ audit_df = <<>>
    /\ OthersIdle
    /\ tie_rank = NoMemory
    /\ first_run = NoMemory

\* "Apply Filters Logic" of insight_7: by volume, by state, by cluster.
ApplyFilters7(t, s) ==
    LET Enough(r) == r.Total_Activity >= s.min_volume
        InStates(r) == r.state \in s.selected_states
        InClusters(r) == r.Cluster \in s.selected_clusters
        by_volume == SelectSeq(t, Enough)
        by_state == IF s.selected_states # {}
                    THEN SelectSeq(by_volume, InStates) ELSE by_volume
    IN IF s.selected_clusters # {}
       THEN SelectSeq(by_state, InClusters) ELSE by_state

(* The script after "df = load_and_process_data()": the controls, the      *)
(* filters and the dashboard, drawn from df_filtered.  Nothing between the *)
(* load and the dashboard looks at whether the load has failed; on an      *)
(* empty df the controls offer no state and no cluster.                    *)
Render7 ==
    /\ script = "insight_7" /\ pc = "loaded"
    /\ \E states \in SUBSET Unique(df, "state") :
         \E clusters \in SUBSET Unique(df, "Cluster") :
            \E volume \in 0 .. 1 :
               /\ sel' = [selected_states |-> states,
                          selected_clusters |-> clusters,
                          min_volume |-> volume]
               /\ df_filtered' = ApplyFilters7(df, sel')
    /\ pc' = "rendered"
    /\ UNCHANGED memory
    /\ UNCHANGED others
    /\ UNCHANGED <<script, missing, audit_df,
                   df_enrol, df_bio, df_demo, df,
                   df_analyzed, error>>

Next7 == Aggregate7 \/ Classify7 \/ Render7

Spec7 == Init7 /\ [][Next7]_vars

(* Runs of the loaders of insight_6 and insight_7 on files as they can be   *)
(* found: the files of a category are missing, or they hold no record, or  *)
(* one record; in the enrolment files read by insight_6 a count cell can   *)
(* be empty (NaN) or text (Unparsable); a record whose count cells are all *)
(* text, which "+" would concatenate, is left out.                         *)
Cells == {0, 1, NaN, Unparsable}

FileContents(sc, cat) ==
    {<<>>} \cup
    {ReadFiles(<<Record(cat, <<"A", "b">>, 1, c)>>, cat) :
        c \in CASE cat = "enrol" ->
                    (IF sc = "insight_6"
                     THEN {c \in [ColSet(EnrolCols) -> Cells] :
                              \E col \in DOMAIN c : c[col] # Unparsable}
                     ELSE EnrolCounts3)
                [] cat = "bio" -> BioCounts2
                [] cat = "demo" -> DemoCounts2}

InitFiles ==
    /\ script \in {"insight_6", "insight_7"}
    /\ pc = "loading"
    /\ missing \in SUBSET Categories
    /\ audit_df = <<>>
    /\ OthersIdle
    /\ df_enrol \in
          IF "enrol" \in missing THEN {<<>>} ELSE FileContents(script, "enrol")
    /\ df_bio \in
          IF "bio" \in missing THEN {<<>>} ELSE FileContents(script, "bio")
    /\ df_demo \in
          IF "demo" \in missing THEN {<<>>} ELSE FileContents(script, "demo")
    /\ df = <<>>
    /\ sel = NoSelection
    /\ df_filtered = <<>>
    /\ df_analyzed = <<>>
    /\ error = NoError
    /\ fitted = NoMemory
    /\ tie_rank = NoMemory
    /\ first_run = NoMemory

NextFiles ==
    Load6 \/ Load6Missing \/ Load6Raises \/ Aggregate7 \/ Classify7

SpecFiles == InitFiles /\ [][NextFiles]_vars

-----------------------------------------------------------------------------
(* new.py: the youth index of the districts.  The script is run from top   *)
(* to bottom: load_data, the filter bar, the aggregation by district and   *)
(* the noise filter.  df_demo holds the records of the demographic files,  *)
(* df the table raw_df_full, df_filtered the table district_df and         *)
(* df_analyzed the table filtered_df.  The timeline filter is left at its  *)
(* default, the whole range of dates.                                      *)

\* The most records the demographic files of one run of new.py hold.
MaxYouthRecs == 2

\* pd.to_numeric(x, errors='coerce') followed by fillna(0), for one cell.
ToNumericFillNa(x) == IF x \in {NaN, Unparsable} THEN 0 ELSE x

\* load_data: the columns renamed and the two count columns coerced.
load_data(records) ==
    [i \in DOMAIN records |->
        [State |-> records[i].state,
         District |-> records[i].district,
         Youth_Updates |-> ToNumericFillNa(records[i].demo_age_5_17),
         Adult_Updates |-> ToNumericFillNa(records[i].demo_age_17_)]]

KeysNew == <<"State", "District">>

\* x / y * 100 of two columns, kept as the fraction 100 x / y; y = 0 gives
\* no number (NaN for 0 / 0).
YouthIndex(row) == Frac(100 * row.Youth_Updates, row.Total_Updates)

\* "3. Aggregations based on Timeline/State": district_df.
district_df(raw, selected_states) ==
    LET Selected(r) == r.State \in selected_states
        filtered_raw ==
            IF selected_states # {} THEN SelectSeq(raw, Selected) ELSE raw
        grouped == GroupBySum(filtered_raw, KeysNew,
                              {"Youth_Updates", "Adult_Updates"})
        totals == WithRowSum(grouped, "Total_Updates",
                             <<"Youth_Updates", "Adult_Updates">>)
    IN [i \in DOMAIN totals |->
          WithColumn(totals[i], "Youth_Index", YouthIndex(totals[i]))]

\* "4. Noise Filter": filtered_df.
NoiseFilter(t, min_updates) ==
    LET Enough(r) == r.Total_Updates >= min_updates
    IN SelectSeq(t, Enough)

(* The records of the demographic files: one or two records of the        *)
(* districts a of state A and b of state B, each count cell a number,     *)
(* empty or text.                                                          *)
YouthKinds ==
    SetToSeq({[state |-> p[1], district |-> p[2],
               demo_age_5_17 |-> y, demo_age_17_ |-> a] :
                 p \in {<<(<<"A">>), (<<"a">>)>>, <<(<<"B">>), (<<"b">>)>>},
                 y \in Cells, a \in Cells})

InitNew ==
    /\ script = "new"
    /\ pc = "loading"
    /\ \E n \in 1 .. MaxYouthRecs :
         \E q \in AscendingSeqs(n, 1, Len(YouthKinds)) :
            df_demo = [i \in DOMAIN q |-> YouthKinds[q[i]]]
    /\ df_enrol = <<>>
    /\ df_bio = <<>>
    /\ df = <<>>
    /\ sel = NoSelection
    /\ df_filtered = <<>>
    /\ df_analyzed = <<>>
    /\ error = NoError
    /\ missing = {}
    /\ audit_df = <<>>
    /\ OthersIdle
    /\ fitted = NoMemory
    /\ tie_rank = NoMemory
    /\ first_run = NoMemory

\* "raw_df_full = load_data()"
LoadNew ==
    /\ script = "new" /\ pc = "loading"
    /\ df' = load_data(df_demo)
    /\ pc' = "loaded"
    /\ UNCHANGED memory
    /\ UNCHANGED others
    /\ UNCHANGED <<script, missing, audit_df,
                   df_enrol, df_bio, df_demo, sel,
                   df_filtered, df_analyzed, error>>

(* The filter bar (multiselect of the states in the data, slider from 0)   *)
(* and the aggregation: district_df, then filtered_df.                     *)
AggregateNew ==
    /\ script = "new" /\ pc = "loaded"
    /\ \E selected_states \in SUBSET Unique(df, "State") :
         \E min_updates \in 0 .. 1 :
            /\ sel' = [selected_states |-> selected_states,
                       min_updates |-> min_updates]
            /\ df_filtered' = district_df(df, selected_states)
            /\ df_analyzed' = NoiseFilter(district_df(df, selected_states),
                                          min_updates)
    /\ pc' = "aggregated"
    /\ UNCHANGED memory
    /\ UNCHANGED others
    /\ UNCHANGED <<script, missing, audit_df,
                   df_enrol, df_bio, df_demo, df, error>>

NextNew == LoadNew \/ AggregateNew

SpecNew == InitNew /\ [][NextNew]_vars

-----------------------------------------------------------------------------
(* Properties of insight_6.py main (specification Spec).                   *)

\* A run of main has ended, by rendering the dashboard or by an exception.
RunEnded == script = "insight_6" /\ pc \in {"rendered", "raised"}

\* The table object of the run carries the column.
Carries(col) == df_filtered # <<>> /\ HasColumn(df_filtered, col)

RiskLabelSet == {HighRisk, MediumRisk, LowRisk}

\* The place of a risk label in the order High < Medium < Low.
LabelRank(l) == CHOOSE j \in DOMAIN RiskLabels : RiskLabels[j] = l

\* The (total_enrolments, total_updates) pairs of the table object.
Pairs == {<<df_filtered[i].total_enrolments, df_filtered[i].total_updates>> :
            i \in DOMAIN df_filtered}

\* The geographic units of the table object.
Units == {<<df_filtered[i].state, df_filtered[i].district,
            df_filtered[i].pincode>> : i \in DOMAIN df_filtered}

(* C18: the clusterer has no side effects on the table passed in.  After   *)
(* a run of main that called perform_cluster_analysis, the table it was    *)
(* called with, df_filtered, is as the filters made it: same columns, same *)
(* values.                                                                  *)
C18_NoSideEffects ==
    (RunEnded /\ EnoughRows(df_filtered)) =>
        df_filtered = ApplyFilters(df, sel)

(* C4: label totality.  When a run of main has ended, every row of the      *)
(* filtered table carries a Risk_Profile that is one of the three risk     *)
(* labels or the insufficient-data sentinel; no row is without a label.    *)
C4_LabelTotality ==
    RunEnded =>
        \A i \in DOMAIN df_filtered :
            /\ "Risk_Profile" \in DOMAIN df_filtered[i]
            /\ df_filtered[i].Risk_Profile \in RiskLabelSet \cup {Insufficient}

(* C5: label rank consistency.  In a table labelled by                     *)
(* perform_cluster_analysis, a cluster whose mean update_ratio is strictly *)
(* less than another's has the strictly earlier label in the order High    *)
(* Risk < Medium Risk < Low Risk.                                          *)
C5_RankConsistency ==
    (RunEnded /\ Carries("cluster") /\ Carries("Risk_Profile")) =>
        LET means == ClusterMeans(df_filtered)
        IN \A i, j \in DOMAIN df_filtered :
              FracLess(means[df_filtered[i].cluster],
                       means[df_filtered[j].cluster])
              => LabelRank(df_filtered[i].Risk_Profile)
                    < LabelRank(df_filtered[j].Risk_Profile)

\* A labelled table with three clusters of pairwise different means.
C5_Witness ==
    /\ RunEnded /\ Carries("cluster") /\ Carries("Risk_Profile")
    /\ LET means == ClusterMeans(df_filtered)
       IN \A c, d \in DOMAIN means :
             c # d => FracLess(means[c], means[d]) \/ FracLess(means[d], means[c])

(* C6: rank-based labelling is a bijection.  Whenever main has called      *)
(* perform_cluster_analysis (with k = N_CLUSTERS), every cluster id of the *)
(* result has a label, no two ids share a label, and k labels are in use.  *)
C6_Bijection ==
    (RunEnded /\ Carries("cluster")) =>
        /\ Carries("Risk_Profile")
        /\ \A i, j \in DOMAIN df_filtered :
              (df_filtered[i].cluster = df_filtered[j].cluster)
                 <=> (df_filtered[i].Risk_Profile = df_filtered[j].Risk_Profile)
        /\ Cardinality({df_filtered[i].Risk_Profile : i \in DOMAIN df_filtered})
              = N_CLUSTERS

C8_Fallback ==
    RunEnded =>
        /\ Cardinality(Units) < 3 =>
              /\ pc = "rendered" /\ error = NoError
              /\ ~Carries("cluster")
              /\ \A i \in DOMAIN df_filtered :
                    /\ "Risk_Profile" \in DOMAIN df_filtered[i]
                    /\ df_filtered[i].Risk_Profile = Insufficient
        /\ Carries("cluster") => Cardinality(Units) >= 3

\* A run on a filtered table of one or two units, all with the sentinel.
C8_Witness ==
    /\ RunEnded /\ pc = "rendered"
    /\ Cardinality(Units) \in {1, 2}
    /\ \A i \in DOMAIN df_filtered : df_filtered[i].Risk_Profile = Insufficient

(* C9 as claimed: a filtered table is clustered if and only if it has at   *)
(* least 5 rows.                                                           *)
C9_Original ==
    RunEnded => (Carries("cluster") <=> Len(df_filtered) >= 5)

(* C9 amended: a filtered table is clustered if and only if it has more    *)
(* than 5 rows, and a table with 5 rows or fewer gets the sentinel label   *)
(* on every row.                                                           *)
C9_Threshold ==
    RunEnded =>
        /\ Carries("cluster") <=> Len(df_filtered) > 5
        /\ Len(df_filtered) <= 5 =>
              \A i \in DOMAIN df_filtered :
                 /\ "Risk_Profile" \in DOMAIN df_filtered[i]
                 /\ df_filtered[i].Risk_Profile = Insufficient

\* A run on exactly 5 rows, which are given the sentinel and not clustered.
C9_Witness ==
    /\ RunEnded /\ Len(df_filtered) = 5 /\ ~Carries("cluster")
    /\ \A i \in DOMAIN df_filtered : df_filtered[i].Risk_Profile = Insufficient

\* The columns of the master table of insight_6.
MasterCols6 ==
    {"state", "district", "pincode", "total_enrolments", "total_bio_updates",
     "total_demo_updates", "total_updates"}

\* The filtered rows as main handed them to perform_cluster_analysis.
Input(t) == Project(t, MasterCols6)

\* The cluster id and label columns of a table, as far as it has them.
LabelColumns(t) ==
    [i \in DOMAIN t |->
        [f \in DOMAIN t[i] \cap {"cluster", "Risk_Profile"} |-> t[i][f]]]

Renamed(t, p) == [i \in DOMAIN t |-> p[t[i].cluster]]

(* C12: labels do not depend on the integer cluster ids.  For a labelled   *)
(* table whose clusters have pairwise distinct mean update_ratio, the      *)
(* labelling of the same partition with the ids renamed by any permutation *)
(* of 0 .. k-1 gives every row the label it has.                           *)
C12_IdIndependence ==
    (/\ RunEnded /\ Carries("cluster") /\ Carries("Risk_Profile")
     /\ ~HasTie(ClusterMeans(df_filtered))) =>
        \A p \in TieOrders(N_CLUSTERS) :
            \A res \in perform_cluster_analysis(Input(df_filtered), N_CLUSTERS,
                                                Renamed(df_filtered, p),
                                                tie_rank) :
                /\ res.raised = NoError
                /\ \A i \in DOMAIN df_filtered :
                      res.table[i].Risk_Profile = df_filtered[i].Risk_Profile

(* A labelled table with distinct means in which the cluster with id 0 is  *)
(* not the one of least mean: it has the label Low Risk.                   *)
C12_Witness ==
    /\ RunEnded /\ Carries("cluster") /\ Carries("Risk_Profile")
    /\ ~HasTie(ClusterMeans(df_filtered))
    /\ \E i \in DOMAIN df_filtered :
          df_filtered[i].cluster = 0 /\ df_filtered[i].Risk_Profile = LowRisk

C23_AuditOrder ==
    (script = "insight_6" /\ pc = "audited") =>
        LET Score(r) == [num |-> r.total_enrolments * 10,
                         den |-> r.total_updates + 1]
            high == {i \in DOMAIN df_analyzed :
                        df_analyzed[i].Risk_Profile = HighRisk}
        IN /\ Len(audit_df) = Cardinality(high)
           /\ \A i \in high :
                 \E j \in DOMAIN audit_df :
                     [f \in DOMAIN df_analyzed[i] |-> audit_df[j][f]]
                        = df_analyzed[i]
           /\ \A i \in DOMAIN audit_df :
                 audit_df[i].Suspicion_Score = Score(audit_df[i])
           /\ \A i, j \in DOMAIN audit_df :
                 /\ i < j => ~FracLess(Score(audit_df[i]), Score(audit_df[j]))
                 /\ (/\ audit_df[i].total_updates = audit_df[j].total_updates
                     /\ audit_df[i].total_enrolments
                           > audit_df[j].total_enrolments)
                    => /\ FracLess(Score(audit_df[j]), Score(audit_df[i]))
                       /\ i < j

(* An audit list with two pincodes of the same total_updates and different *)
(* enrolments, and a third row.                                            *)
C23_Witness ==
    /\ script = "insight_6" /\ pc = "audited"
    /\ Len(audit_df) >= 3
    /\ \E i, j \in DOMAIN audit_df :
          /\ audit_df[i].total_updates = audit_df[j].total_updates
          /\ audit_df[i].total_enrolments > audit_df[j].total_enrolments

-----------------------------------------------------------------------------
(* Properties of runs for different selections (specification SpecTwo).    *)

\* The row passes the filters of the selection s.
Passes(r, s) ==
    /\ \/ s.selected_state = AllStates
       \/ /\ r.state = s.selected_state
          /\ s.selected_district = {} \/ r.district \in s.selected_district
    /\ r.total_enrolments >= s.min_enrolments

\* The rows of the loaded table t that pass the filters of s, in order.
RowsPassing(t, s) == LET Test(r) == Passes(r, s) IN SelectSeq(t, Test)

-----------------------------------------------------------------------------
(* Properties of the loaders (specifications SpecLoad and Spec7).          *)

\* The master table of the script is built (before any later relabelling).
Aggregated ==
    \/ script = "insight_6" /\ pc = "start"
    \/ script = "insight_5" /\ pc = "loaded"
    \/ script = "insight_7" /\ pc = "merged"

\* The spelling of a name in the master table of the script.
Normalised(name) ==
    CASE script = "insight_5" -> Title(name)
      [] script = "insight_7" -> Strip(Title(name))
      [] OTHER -> name

\* The geographic key of a record or row for the script.
GeoKey(r) ==
    IF script = "insight_6"
    THEN <<r.state, r.district, r.pincode>>
    ELSE <<Normalised(r.state), Normalised(r.district)>>

RECURSIVE SumCols(_, _)
\* The sum of the listed columns over all records of a stream.
SumCols(t, cols) ==
    IF t = <<>> THEN 0 ELSE RowSum(Head(t), cols) + SumCols(Tail(t), cols)

\* The sum of the columns over the records of the stream with the key.
KeySum(stream, key, cols) ==
    LET HasKey(r) == GeoKey(r) = key IN SumCols(SelectSeq(stream, HasKey), cols)

(* C1: aggregation sum invariant.  In the aggregated table every feature   *)
(* value of a row is the sum of that feature over exactly the input        *)
(* records whose key fields equal the row's geographic key.                *)
C1_SumInvariant ==
    /\ (script = "insight_6" /\ pc = "start") =>
          \A i \in DOMAIN df :
             LET key == <<df[i].state, df[i].district, df[i].pincode>>
             IN /\ df[i].total_enrolments = KeySum(df_enrol, key, EnrolCols)
                /\ df[i].total_bio_updates = KeySum(df_bio, key, BioCols)
                /\ df[i].total_demo_updates = KeySum(df_demo, key, DemoCols)
    /\ (script = "insight_7" /\ pc = "merged") =>
          \A i \in DOMAIN df :
             LET key == <<df[i].state, df[i].district>>
             IN /\ df[i].bio_age_17_ = KeySum(df_bio, key, <<"bio_age_17_">>)
                /\ df[i].bio_age_5_17 = KeySum(df_bio, key, <<"bio_age_5_17">>)
                /\ df[i].demo_age_17_ = KeySum(df_demo, key, <<"demo_age_17_">>)
                /\ df[i].demo_age_5_17
                      = KeySum(df_demo, key, <<"demo_age_5_17">>)
                /\ df[i].age_18_greater
                      = KeySum(df_enrol, key, <<"age_18_greater">>)

\* The records of a category.
Stream(cat) ==
    CASE cat = "enrol" -> df_enrol [] cat = "bio" -> df_bio
      [] cat = "demo" -> df_demo

\* The columns on which the script groups and merges the category.
KeyCols(cat) ==
    IF script = "insight_6"
    THEN IF cat = "enrol" THEN Keys6 ELSE <<"pincode">>
    ELSE Keys2

\* The key of a record in the aggregate of its category.
RecKey(cat, r) ==
    [j \in DOMAIN KeyCols(cat) |->
        IF KeyCols(cat)[j] = "pincode" THEN r.pincode
        ELSE Normalised(r[KeyCols(cat)[j]])]

\* The column of the master table that totals the stream.
TotalCol(cat) ==
    CASE script = "insight_6" ->
            (CASE cat = "enrol" -> "total_enrolments"
               [] cat = "bio" -> "total_bio_updates"
               [] cat = "demo" -> "total_demo_updates")
      [] script = "insight_5" ->
            (CASE cat = "enrol" -> "Total_Enrolments"
               [] cat = "bio" -> "Total_Biometric_Updates"
               [] cat = "demo" -> "Total_Demographic_Updates")
      [] script = "insight_7" ->
            (CASE cat = "enrol" -> "age_18_greater"
               [] cat = "bio" -> "bio_age_17_"
               [] cat = "demo" -> "demo_age_17_")

(* C2: outer-join completeness.  Every geographic key present in the       *)
(* enrolment, the biometric or the demographic aggregate appears in the    *)
(* merged table, and a row has zero in the total of every category whose   *)
(* aggregate lacks its key.                                                *)
C2_OuterJoin ==
    Aggregated =>
        \A cat \in {"enrol", "bio", "demo"} :
            /\ \A j \in DOMAIN Stream(cat) :
                  \E i \in DOMAIN df :
                     KeyOf(df[i], KeyCols(cat)) = RecKey(cat, Stream(cat)[j])
            /\ \A i \in DOMAIN df :
                  (\A j \in DOMAIN Stream(cat) :
                      RecKey(cat, Stream(cat)[j]) # KeyOf(df[i], KeyCols(cat)))
                  => df[i][TotalCol(cat)] = 0

(* C3: geographic-unit uniqueness.  In the table that leaves the           *)
(* aggregation and merge stage, names normalised as the script normalises  *)
(* them, no two rows carry the same geographic key.                        *)
C3_UniqueUnits ==
    (\/ script = "insight_6" /\ pc = "start"
     \/ script \in {"insight_5", "insight_7"} /\ pc = "loaded") =>
        \A i, j \in DOMAIN df :
            i # j =>
               IF script = "insight_6"
               THEN <<df[i].state, df[i].district, df[i].pincode>>
                       # <<df[j].state, df[j].district, df[j].pincode>>
               ELSE <<df[i].state, df[i].district>>
                       # <<df[j].state, df[j].district>>

(* C10: threshold boundary.  In the table labelled by classify_district a  *)
(* unit is Cluster A iff demo_age_17_ / bio_age_17_ > 2.5, Cluster B iff   *)
(* the ratio is < 0.2 and Cluster C otherwise; the ratios 2.5 and 0.2      *)
(* themselves give Cluster C; every unit has exactly one of the labels.    *)
C10_ThresholdBoundary ==
    (script = "insight_7" /\ pc = "loaded") =>
        \A i \in DOMAIN df :
            LET d == df[i].demo_age_17_
                b == df[i].bio_age_17_
            IN /\ b > 0 /\ d >= 0
               /\ df[i].Cluster \in {ClusterA, ClusterB, ClusterC}
               /\ df[i].Cluster = ClusterA <=> 2 * d > 5 * b
               /\ df[i].Cluster = ClusterB <=> 5 * d < b
               /\ df[i].Cluster = ClusterC <=> (2 * d <= 5 * b /\ 5 * d >= b)
               /\ (2 * d = 5 * b \/ 5 * d = b) => df[i].Cluster = ClusterC

\* A unit whose ratio is exactly 2.5 (5 to 2), labelled Cluster C.
C10_Witness ==
    /\ script = "insight_7" /\ pc = "loaded"
    /\ \E i \in DOMAIN df :
          /\ df[i].demo_age_17_ = 5 /\ df[i].bio_age_17_ = 2
          /\ df[i].Cluster = ClusterC

(* C17: no mutation after creation.  In the labelled table of insight_7    *)
(* the bio_age_17_ of a district is the aggregated sum of the adult        *)
(* biometric updates of its records, 0 for a district without such         *)
(* updates, and Total_Activity is demo_age_17_ plus that sum.              *)
C17_NoMutation ==
    (script = "insight_7" /\ pc \in {"loaded", "rendered"}) =>
        \A i \in DOMAIN df :
            LET bio == KeySum(df_bio, GeoKey(df[i]), <<"bio_age_17_">>)
                demo == KeySum(df_demo, GeoKey(df[i]), <<"demo_age_17_">>)
            IN /\ df[i].bio_age_17_ = bio
               /\ df[i].demo_age_17_ = demo
               /\ df[i].Total_Activity = demo + bio

(* C19: fatal errors never yield a partial labelled table.  When the       *)
(* clustering or the labelling of a run has failed, the error is shown and *)
(* the run renders nothing after it: no dashboard is drawn in a run whose  *)
(* labelling raised.                                                       *)
C19_FatalErrors ==
    error # NoError => pc # "rendered"

-----------------------------------------------------------------------------
(* Properties of the worked example (specification SpecExample).           *)

\* The label the example expects for a row with the figures of a district.
ExpectedLabel(row) ==
    CASE Features(row) = Features(ExampleDistricts[1]) -> HighRisk
      [] Features(row) = Features(ExampleDistricts[3]) -> MediumRisk
      [] Features(row) = Features(ExampleDistricts[2]) -> LowRisk

\* Every row of the table has a label, the one the example expects.
LabelledAsExpected(t) ==
    \A i \in DOMAIN t :
        /\ "Risk_Profile" \in DOMAIN t[i]
        /\ t[i].Risk_Profile = ExpectedLabel(t[i])

(* C21 as claimed: a run of the pipeline on the three districts gives      *)
(* district 1 the lowest-rank label, district 3 the middle label and       *)
(* district 2 the highest-rank label.                                      *)
C21_Original ==
    pc \in {"rendered", "called"} => LabelledAsExpected(df_analyzed)

(* C21 amended: whenever perform_cluster_analysis has run on rows of the   *)
(* three districts, the rows of district 1 are High Risk, those of         *)
(* district 3 Medium Risk and those of district 2 Low Risk, whatever       *)
(* cluster ids they have; main calls it only for more than MinRows rows,   *)
(* and on fewer rows gives every row the sentinel label.                   *)
C21_Example ==
    /\ pc = "called" => error = NoError /\ LabelledAsExpected(df_analyzed)
    /\ pc = "rendered" =>
          IF EnoughRows(df_analyzed)
          THEN HasColumn(df_analyzed, "cluster")
               /\ LabelledAsExpected(df_analyzed)
          ELSE \A i \in DOMAIN df_analyzed :
                  df_analyzed[i].Risk_Profile = Insufficient

(* The three districts, one row each, labelled by the function as the      *)
(* example expects while district 1 has the cluster id 2.                  *)
C21_Witness ==
    /\ pc = "called" /\ Len(df_analyzed) = 3
    /\ LabelledAsExpected(df_analyzed)
    /\ \E i \in DOMAIN df_analyzed :
          /\ Features(df_analyzed[i]) = Features(ExampleDistricts[1])
          /\ df_analyzed[i].cluster = 2

\* A run in which the partitioning step was called on df_analyzed.
Partitioned ==
    /\ pc \in {"rendered", "called"}
    /\ df_analyzed # <<>> /\ HasColumn(df_analyzed, "cluster")

\* The matrices that were handed to kmeans.fit_predict in this process.
PassedToKMeans == {key[1] : key \in DOMAIN fitted}

(* Column j of the matrix X is the standardized column j of the raw        *)
(* features F: its values sum to 0, their squares sum to n (n var for the  *)
(* numerators), and the differences of its values are those of the raw     *)
(* counts times one positive factor.                                       *)
StandardizedColumn(X, F, j) ==
    LET n == Len(F)
        nums == [i \in DOMAIN X |-> X[i][j].num]
    IN /\ DOMAIN X = DOMAIN F
       /\ \A i \in DOMAIN X : X[i][j].var = X[1][j].var /\ X[i][j].var > 0
       /\ SumSeq(nums) = 0
       /\ SumSeq(Squares(nums)) = n * X[1][j].var
       /\ \A i, k \in DOMAIN X :
             nums[i] - nums[k] = n * (F[i][j] - F[k][j])

(* Column j of X is a strictly concave function of the raw counts, as a    *)
(* standardized log(1 + x) of them is: between three rows with counts      *)
(* x < y < z the value rises faster from x to y than from y to z.          *)
ConcaveColumn(X, F, j) ==
    \A a, b, c \in DOMAIN X :
        (F[a][j] < F[b][j] /\ F[b][j] < F[c][j]) =>
            (X[b][j].num - X[a][j].num) * (F[c][j] - F[b][j])
               > (X[c][j].num - X[b][j].num) * (F[b][j] - F[a][j])

-----------------------------------------------------------------------------
(* Properties of the loaders on missing files and unreadable cells         *)
(* (specification SpecFiles).                                              *)

\* The loader of the script has returned a table to its caller.
LoaderReturned ==
    \/ script = "insight_6" /\ pc = "start"
    \/ script = "insight_7" /\ pc = "loaded"

\* The loader of the script has returned, or has ended with an exception.
LoaderEnded == LoaderReturned \/ pc = "raised"

(* C14: missing input is distinct from an empty result.  When the loader   *)
(* has returned, the run shows the lookup failure (FileNotFoundError)      *)
(* exactly when a CSV file of some category was not found: a run whose     *)
(* files exist but hold no rows does not show it, and a run with a missing *)
(* file does not pass for a run on zero rows.                              *)
C14_MissingDistinct ==
    LoaderReturned => (missing # {} <=> error = "FileNotFoundError")

\* A count cell read as a number, NaN and text taken as zero.
Coerced(x) == IF x \in {NaN, Unparsable} THEN 0 ELSE x

RECURSIVE CoercedSum(_, _)
\* The sum of the listed count cells of one record, each coerced.
CoercedSum(row, cols) ==
    IF cols = <<>> THEN 0
    ELSE Coerced(row[Head(cols)]) + CoercedSum(row, Tail(cols))

RECURSIVE CoercedTotal(_, _)
\* The sum of the coerced count cells over all records of a frame.
CoercedTotal(t, cols) ==
    IF t = <<>> THEN 0
    ELSE CoercedSum(Head(t), cols) + CoercedTotal(Tail(t), cols)

(* C15: coercion to zero.  When all files of insight_6 are found, the      *)
(* loader returns the master table whatever the count cells hold, and the  *)
(* total_enrolments of a unit is the sum of the count cells of its         *)
(* records with every empty or unreadable cell counted as zero.            *)
C15_CoercionToZero ==
    (script = "insight_6" /\ missing = {} /\ LoaderEnded) =>
        /\ pc = "start" /\ error = NoError
        /\ \A i \in DOMAIN df :
              LET HasKey(r) == KeyOf(r, Keys6) = KeyOf(df[i], Keys6)
              IN df[i].total_enrolments
                    = CoercedTotal(SelectSeq(df_enrol, HasKey), EnrolCols)

-----------------------------------------------------------------------------
(* Properties of the derived ratios (specification SpecNew).               *)

(* C16: feature-vector invariant.  In the table of districts of new.py     *)
(* every count is non-negative and the Youth_Index of every district is a  *)
(* defined number: its denominator, as the code divides, is not zero, also *)
(* for a district whose Total_Updates is zero.                             *)
C16_FeatureVector ==
    (script = "new" /\ pc = "aggregated") =>
        \A i \in DOMAIN df_filtered :
            /\ df_filtered[i].Youth_Updates >= 0
            /\ df_filtered[i].Adult_Updates >= 0
            /\ df_filtered[i].Total_Updates >= 0
            /\ df_filtered[i].Youth_Index.num >= 0
            /\ df_filtered[i].Youth_Index.den # 0

-----------------------------------------------------------------------------
(* pinger.py: one cycle of requests that keeps the deployed dashboards     *)
(* awake.                                                                  *)

\* The applications to ping.
urls ==
    <<"https://uidaihackathon-e2cehtuk9hddodamhb5kkv.streamlit.app/",
      "https://uidaihackathon-lnf6m8mb68ifhno7t9hxkz.streamlit.app/",
      "https://uidaihackathon-sfg9wxwtifyamf7moqrchv.streamlit.app/",
      "https://uidaihackathon-ychxvfn834rmkxedwxqqjx.streamlit.app/",
      "https://uidaihackathon-4mmhnktehvbisjrxxs3ne8.streamlit.app/",
      "https://uidaihackathon-5sml4e97xyorssavybuq52.streamlit.app/",
      "https://uidaihackathon-uovw8keu8zjsfm9sgqeqta.streamlit.app/">>

(* What requests.get(url, timeout=10) can do: return a response with a     *)
(* status code, or raise one of the exceptions of the requests library     *)
(* (the timeout of ten seconds bounds the wait for the server).            *)
NoException == "none"

Outcomes ==
    {[status_code |-> c, exception |-> NoException] : c \in {200, 404, 503}}
    \cup {[status_code |-> 0, exception |-> e] :
              e \in {"Timeout", "ConnectionError"}}

\* An except clause that catches nothing.
IsRequestExceptionMutantNone(e) == FALSE

\* "except requests.exceptions.RequestException as e"
IsRequestException(e) == e \in {"Timeout", "ConnectionError"}

\* A count of every response, whatever its status.
CountedMutantAnyResponse(o) == o.exception = NoException

\* "if response.status_code == 200: ... success_count += 1"
Counted(o) == o.exception = NoException /\ o.status_code = 200

InitPing ==
    /\ script = "pinger"
    /\ pc = "start"
    /\ df_enrol = <<>> /\ df_bio = <<>> /\ df_demo = <<>>
    /\ df = <<>>
    /\ sel = NoSelection
    /\ df_filtered = <<>>
    /\ df_analyzed = <<>>
    /\ error = NoError
    /\ fitted = NoMemory
    /\ tie_rank = NoMemory
    /\ first_run = NoMemory
    /\ missing = {}
    /\ audit_df = <<>>
    /\ OthersIdle

\* The head of ping_apps: the banner and "success_count = 0".
PingStart ==
    /\ script = "pinger" /\ pc = "start"
    /\ success_count' = 0
    /\ pc' = "loop"
    /\ UNCHANGED pipeline
    /\ UNCHANGED <<script, error, attempted, groq_available, secrets,
                   state_selection, chat_history, request, df_state,
                   state_before>>

(* One turn of "for url in urls": the request to the next URL of the list, *)
(* the count of a 200 response, the message, and the sleep of one second.  *)
(* An exception that the except clause does not catch ends ping_apps.      *)
PingUrl ==
    /\ script = "pinger" /\ pc = "loop"
    /\ Len(attempted) < Len(urls)
    /\ \E o \in Outcomes :
          LET url == urls[Len(attempted) + 1]
          IN /\ attempted' =
                    Append(attempted, [url |-> url,
                                       status_code |-> o.status_code,
                                       exception |-> o.exception])
             /\ success_count' =
                    IF Counted(o) THEN success_count + 1 ELSE success_count
             /\ IF o.exception # NoException
                      /\ ~IsRequestException(o.exception)
                THEN pc' = "raised" /\ error' = o.exception
                ELSE pc' = "loop" /\ error' = error
    /\ UNCHANGED pipeline
    /\ UNCHANGED <<script, groq_available, secrets, state_selection,
                   chat_history, request, df_state, state_before>>

\* The list is exhausted: the closing message, and ping_apps returns.
PingFinish ==
    /\ script = "pinger" /\ pc = "loop"
    /\ Len(attempted) = Len(urls)
    /\ pc' = "finished"
    /\ UNCHANGED pipeline
    /\ UNCHANGED <<script, error>>
    /\ UNCHANGED others

NextPing == PingStart \/ PingUrl \/ PingFinish

SpecPing == InitPing /\ [][NextPing]_vars

(* ping_apps is one sequential loop: a step that can be taken is taken,    *)
(* the request returning or raising within its timeout.                    *)
SpecPingFair == SpecPing /\ WF_vars(NextPing)

\* The attempts that ended in a response with status code 200.
Succeeded == {k \in DOMAIN attempted :
                 /\ attempted[k].exception = NoException
                 /\ attempted[k].status_code = 200}

(* C24: the ping cycle completes.  At every moment the URLs attempted are  *)
(* the first URLs of the list, each once and in the order of the list;     *)
(* ping_apps finishes only after all of them were attempted, and it does   *)
(* finish, whatever the requests returned or raised.                       *)
C24_PingCompletes ==
    /\ [](/\ Len(attempted) <= Len(urls)
          /\ \A k \in DOMAIN attempted : attempted[k].url = urls[k])
    /\ [](pc = "finished" => Len(attempted) = Len(urls))
    /\ <>(pc = "finished")

\* A finished cycle whose first request raised and whose second got a 503.
C24_Witness ==
    /\ script = "pinger" /\ pc = "finished"
    /\ attempted[1].exception = "Timeout"
    /\ attempted[2].status_code = 503
    /\ attempted[Len(urls)].status_code = 200

(* C25: the success count.  At every step success_count is the number of   *)
(* attempts that got status code 200, neither another status nor an        *)
(* exception being counted, and it lies between 0 and the number of URLs.  *)
C25_SuccessCount ==
    script = "pinger" =>
        /\ success_count = Cardinality(Succeeded)
        /\ 0 <= success_count /\ success_count <= Len(urls)

\* A finished cycle with successes, another status and an exception.
C25_Witness ==
    /\ script = "pinger" /\ pc = "finished"
    /\ success_count = 3
    /\ \E k \in DOMAIN attempted : attempted[k].status_code = 404
    /\ \E k \in DOMAIN attempted : attempted[k].exception = "ConnectionError"

-----------------------------------------------------------------------------
(* The chat popover of new.py and insight_2.py.  A script run is one       *)
(* action: Streamlit runs the script from the top for the first load, for  *)
(* a change of a filter, for a message typed in the chat input, and for    *)
(* st.rerun().  st.session_state.chat_history lives as long as the         *)
(* session; a history not yet created is the empty one.                    *)

\* The exchanges a session is followed for.
MaxTurns == 2

ChatScripts == {"new", "insight_2"}

\* The value None of the client.
NoClient == "None"

(* get_groq_client: the client when the key is in the secrets, None when   *)
(* it is not (KeyError) or, in insight_2.py, when groq is not installed.   *)
get_groq_client(s, available, keys) ==
    IF s = "insight_2" /\ ~available THEN NoClient
    ELSE IF "GROQ_API_KEY" \in keys THEN "Groq"
    ELSE NoClient

\* new.py "if client:", insight_2.py "if groq_available:".
PopoverExecutes(s, available, client) ==
    IF s = "new" THEN client # NoClient ELSE available

\* The filter selections: no state (the default) or some states.
StateSelections == {<<>>, <<"Goa">>, <<"Kerala">>}

(* prepare_data_context: the summary of the filtered table, which is a     *)
(* function of the selection, the data being fixed.                        *)
prepare_data_context(selection) ==
    IF selection = <<>> THEN "Scope: All India"
    ELSE IF selection = <<"Goa">> THEN "Scope: Goa"
    ELSE "Scope: Kerala"

\* The system prompt, whose content embeds the data context.
system_prompt(data_context) == [role |-> "system", content |-> data_context]

\* The automatic first question.
initial_prompt(s) ==
    IF s = "new"
    THEN "Based on the currently filtered data, give me 3 urgent government policy recommendations to improve the situation."
    ELSE "Give me a list of recommended government policy measures based on this data."

\* st.chat_input returns None when nothing was submitted.
NoPrompt == ""

\* What the user can type: a question, or the very text of the first one.
Prompts(s) == {"What should the districts of Goa do first?", initial_prompt(s)}

\* The answers of the completion endpoint (temperature 0.7).
Completions == {"advice 1", "advice 2"}

\* The texts returned for an exception of the completion call.
ApiErrors == {"AI Error: Connection error."}

\* The text returned in new.py when client is None (an AttributeError).
NoneTypeError == "AI Error: 'NoneType' object has no attribute 'chat'"

\* The text returned in insight_2.py when client is None.
Unavailable ==
    "AI Features Unavailable: GROQ_API_KEY missing or groq library not installed."

FailureTexts == ApiErrors \cup {NoneTypeError, Unavailable}

\* What the completion call does: it answers, or it raises.
ApiOutcomes == Completions \cup ApiErrors

\* get_ai_response without its except clause.
get_ai_responseMutantUncaught(s, client, messages, o) ==
    IF s = "insight_2" /\ client = NoClient
    THEN [raised |-> FALSE, text |-> Unavailable, sent |-> FALSE,
          failed |-> TRUE]
    ELSE IF client = NoClient
    THEN [raised |-> TRUE, text |-> NoneTypeError, sent |-> FALSE,
          failed |-> TRUE]
    ELSE [raised |-> o \in ApiErrors, text |-> o, sent |-> TRUE,
          failed |-> o \in ApiErrors]

(* get_ai_response(messages): the content of the completion, or the text   *)
(* "AI Error: ..." for any exception of the call; insight_2.py returns     *)
(* the unavailable text before the call when client is None.               *)
get_ai_response(s, client, messages, o) ==
    IF s = "insight_2" /\ client = NoClient
    THEN [raised |-> FALSE, text |-> Unavailable, sent |-> FALSE,
          failed |-> TRUE]
    ELSE IF client = NoClient
    THEN [raised |-> FALSE, text |-> NoneTypeError, sent |-> FALSE,
          failed |-> TRUE]
    ELSE [raised |-> FALSE, text |-> o, sent |-> TRUE,
          failed |-> o \in ApiErrors]

UserMessage(content) == [role |-> "user", content |-> content]

AssistantMessage(content) == [role |-> "assistant", content |-> content]

\* A history that forgets the answer.
AppendReplyMutantDropped(h, text) == h

\* chat_history.append({"role": "assistant", "content": response})
AppendReply(h, text) == Append(h, AssistantMessage(text))

\* A request that carries the history alone.
full_messagesMutantHistoryOnly(prompt, h) == h

\* full_messages = [system_prompt] + st.session_state.chat_history
full_messages(prompt, h) == <<prompt>> \o h

\* An automatic question in every run.
AutoTriggeredMutantAlways(h) == TRUE

\* "if not st.session_state.chat_history:"
AutoTriggered(h) == h = <<>>

(* One exchange: the user message is appended, the system prompt and the   *)
(* whole history are passed to get_ai_response, the answer is appended.    *)
(* The record request keeps what was passed and what the call was for.     *)
Exchange(s, client, prompt, h, content, o, by) ==
    LET h1 == Append(h, UserMessage(content))
        messages == full_messages(prompt, h1)
        r == get_ai_response(s, client, messages, o)
    IN [history |-> IF r.raised THEN h1 ELSE AppendReply(h1, r.text),
        raised |-> r.raised,
        request |-> [called |-> TRUE, sent |-> r.sent, failed |-> r.failed,
                     messages |-> messages, by |-> by, prompt |-> content]]

(* The body of the popover in one run: the automatic exchange when the     *)
(* history is empty, then the exchange for the message typed, if any.      *)
Popover(s, client, selection, h, typed, o1, o2) ==
    LET prompt == system_prompt(prepare_data_context(selection))
        none == [history |-> h, raised |-> FALSE, request |-> NoRequest]
        auto == IF AutoTriggered(h)
                THEN Exchange(s, client, prompt, h, initial_prompt(s), o1,
                              "auto")
                ELSE none
    IN IF auto.raised \/ typed = NoPrompt THEN auto
       ELSE Exchange(s, client, prompt, auto.history, typed, o2, "input")

\* One run of the script with the given widget values.
ScriptRun(selection, typed, o1, o2) ==
    LET client == get_groq_client(script, groq_available, secrets)
    IN IF PopoverExecutes(script, groq_available, client)
       THEN Popover(script, client, selection, chat_history, typed, o1, o2)
       ELSE [history |-> chat_history, raised |-> FALSE,
             request |-> NoRequest]

\* What a run leaves behind.
RunEnds(res, selection, position) ==
    /\ chat_history' = res.history
    /\ request' = res.request
    /\ state_selection' = selection
    /\ pc' = IF res.raised THEN "raised" ELSE position
    /\ error' = IF res.raised THEN "Exception" ELSE error
    /\ UNCHANGED pipeline
    /\ UNCHANGED <<script, groq_available, secrets, attempted, success_count,
                   df_state, state_before>>

InitChat ==
    /\ script \in ChatScripts
    /\ pc = "start"
    /\ df_enrol = <<>> /\ df_bio = <<>> /\ df_demo = <<>>
    /\ df = <<>>
    /\ sel = NoSelection
    /\ df_filtered = <<>>
    /\ df_analyzed = <<>>
    /\ error = NoError
    /\ fitted = NoMemory
    /\ tie_rank = NoMemory
    /\ first_run = NoMemory
    /\ missing = {}
    /\ audit_df = <<>>
    /\ attempted = <<>>
    /\ success_count = 0
    /\ groq_available \in (IF script = "new" THEN {TRUE} ELSE BOOLEAN)
    /\ secrets \in {{}, {"GROQ_API_KEY"}}
    /\ state_selection = <<>>
    /\ chat_history = <<>>
    /\ request = NoRequest
    /\ df_state = <<>>
    /\ state_before = <<>>

\* The first run of a session: the widgets have their default values.
ChatFirstRun ==
    /\ script \in ChatScripts /\ pc = "start"
    /\ \E o1, o2 \in ApiOutcomes :
          RunEnds(ScriptRun(<<>>, NoPrompt, o1, o2), <<>>, "completed")

\* The run for a change of the state filter.
ChatFilterRun ==
    /\ script \in ChatScripts /\ pc = "completed"
    /\ \E selection \in StateSelections \ {state_selection} :
       \E o1, o2 \in ApiOutcomes :
          RunEnds(ScriptRun(selection, NoPrompt, o1, o2), selection,
                  "completed")

(* The run for a message typed in the chat input, which the previous run   *)
(* showed; it ends with st.rerun().                                        *)
ChatInput ==
    /\ script \in ChatScripts /\ pc = "completed"
    /\ PopoverExecutes(script, groq_available,
                       get_groq_client(script, groq_available, secrets))
    /\ Len(chat_history) < 2 * MaxTurns
    /\ \E typed \in Prompts(script) :
       \E o1, o2 \in ApiOutcomes :
          RunEnds(ScriptRun(state_selection, typed, o1, o2), state_selection,
                  "rerun")

\* The run that st.rerun() asks for: same widget values, nothing typed.
ChatRerun ==
    /\ script \in ChatScripts /\ pc = "rerun"
    /\ \E o1, o2 \in ApiOutcomes :
          RunEnds(ScriptRun(state_selection, NoPrompt, o1, o2),
                  state_selection, "completed")

NextChat == ChatFirstRun \/ ChatFilterRun \/ ChatInput \/ ChatRerun

SpecChat == InitChat /\ [][NextChat]_vars

\* The client of the session.
client == get_groq_client(script, groq_available, secrets)

\* A run of a chat script has ended, and the popover was part of it.
PopoverRan ==
    /\ script \in ChatScripts
    /\ pc \in {"completed", "rerun"}
    /\ PopoverExecutes(script, groq_available, client)

\* h is the beginning of g.
IsPrefix(h, g) == Len(h) <= Len(g) /\ SubSeq(g, 1, Len(h)) = h

\* The history is a sequence of pairs: a user message, then its answer.
Alternates(h) ==
    /\ Len(h) % 2 = 0
    /\ \A i \in DOMAIN h :
          h[i].role = (IF i % 2 = 1 THEN "user" ELSE "assistant")

(* C26: alternation of the chat history.  After every run in which the     *)
(* popover executed, chat_history is not empty, has even length,           *)
(* alternates user and assistant, begins with the automatic question and   *)
(* holds no system message; and no step removes or reorders entries: the   *)
(* history before a step is the beginning of the history after it.         *)
C26_Alternation ==
    /\ [](PopoverRan =>
             /\ chat_history # <<>>
             /\ Alternates(chat_history)
             /\ chat_history[1] = UserMessage(initial_prompt(script))
             /\ \A i \in DOMAIN chat_history :
                    chat_history[i].role # "system")
    /\ [][IsPrefix(chat_history, chat_history')]_vars

\* Two exchanges are stored, the second made under a filter selection.
C26_Witness ==
    /\ PopoverRan /\ pc = "completed"
    /\ Len(chat_history) = 2 * MaxTurns
    /\ state_selection # <<>>

(* C27: the shape of a request.  The list passed to the completion         *)
(* endpoint in a run is the system message made from the data context of   *)
(* that run's filter selection, followed by the whole history as it was    *)
(* at the call, in order; no other message of it is a system message, and  *)
(* its last message is the user message the request answers.               *)
C27_RequestShape ==
    (script \in ChatScripts /\ request.called /\ request.sent) =>
        LET m == request.messages
        IN /\ m[1] = system_prompt(prepare_data_context(state_selection))
           /\ \A i \in 2..Len(m) : m[i].role # "system"
           /\ Tail(m) = SubSeq(chat_history, 1, Len(chat_history) - 1)
           /\ m[Len(m)] = UserMessage(request.prompt)

(* A request for a typed message, sent under a selection other than the    *)
(* one of the first answer.                                                *)
C27_Witness ==
    /\ script \in ChatScripts /\ request.called /\ request.sent
    /\ request.by = "input"
    /\ Len(request.messages) = 2 * MaxTurns
    /\ state_selection # <<>>

(* C28: the automatic analysis happens at most once in a session.  A run   *)
(* makes the automatic request only when it finds the history empty; once  *)
(* the history is not empty, no run, also none for another filter          *)
(* selection, changes the first question and its stored answer.            *)
C28_AutoOnce ==
    [][/\ (request'.called /\ request'.by = "auto") => chat_history = <<>>
       /\ chat_history # <<>> =>
             SubSeq(chat_history', 1, 2) = SubSeq(chat_history, 1, 2)]_vars

\* A run for another filter selection that made no request.
C28_Witness ==
    /\ PopoverRan /\ pc = "completed"
    /\ state_selection # <<>>
    /\ request = NoRequest
    /\ Len(chat_history) = 2

(* C29: failures of the chat become messages.  No run of a chat script     *)
(* ends in an exception of get_ai_response; after a call that failed, the  *)
(* last entry of the history is the assistant message with the failure     *)
(* text, the entry before it is the user message of the call, and the      *)
(* history alternates.                                                     *)
C29_FailuresAreMessages ==
    script \in ChatScripts =>
        /\ pc # "raised" /\ error = NoError
        /\ (request.called /\ request.failed) =>
              LET n == Len(chat_history)
              IN /\ Alternates(chat_history)
                 /\ chat_history[n].content \in FailureTexts
                 /\ chat_history[n - 1] = UserMessage(request.prompt)

(* The typed message of a session without API key got the failure text as  *)
(* its answer.                                                             *)
C29_Witness ==
    /\ script = "insight_2" /\ client = NoClient
    /\ request.called /\ request.failed /\ request.by = "input"
    /\ Len(chat_history) = 2 * MaxTurns

-----------------------------------------------------------------------------
(* app.py clean_data: the removal of the "1000" noise rows and the         *)
(* standardization of the state names.  A string is the sequence of its    *)
(* characters, so that strip, title and replace do what they do in Python. *)

\* The length of the generated state names.
MaxName == 5

ascii_lowercase ==
    <<"a", "b", "c", "d", "e", "f", "g", "h", "i", "j", "k", "l", "m", "n",
      "o", "p", "q", "r", "s", "t", "u", "v", "w", "x", "y", "z">>

ascii_uppercase ==
    <<"A", "B", "C", "D", "E", "F", "G", "H", "I", "J", "K", "L", "M", "N",
      "O", "P", "Q", "R", "S", "T", "U", "V", "W", "X", "Y", "Z">>

(* The character c in the other case: the letter of the alphabet to at     *)
(* the place c has in the alphabet from; c itself when it is not there.    *)
Recase(c, from, to) ==
    IF \E i \in DOMAIN from : from[i] = c
    THEN to[CHOOSE i \in DOMAIN from : from[i] = c]
    ELSE c

\* str.lower()
str_lower(name) ==
    [i \in DOMAIN name |-> Recase(name[i], ascii_uppercase, ascii_lowercase)]

(* str.title(): a letter that follows a character that is not a letter is  *)
(* made capital, every other letter is made small.                         *)
title(name) ==
    LET upper(c) == Recase(c, ascii_lowercase, ascii_uppercase)
        lower(c) == Recase(c, ascii_uppercase, ascii_lowercase)
        IsCased(c) == upper(c) # c \/ lower(c) # c
    IN [i \in DOMAIN name |->
           IF i = 1 \/ ~IsCased(name[i - 1]) THEN upper(name[i])
           ELSE lower(name[i])]

\* old occurs in name at place i.
OccursAt(name, old, i) ==
    /\ i + Len(old) - 1 <= Len(name)
    /\ SubSeq(name, i, i + Len(old) - 1) = old

\* "old in name"
Contains(name, old) == \E i \in DOMAIN name : OccursAt(name, old, i)

\* str.replace(old, new): the occurrences from the left, not overlapping.
RECURSIVE replace(_, _, _)
replace(name, old, new) ==
    IF name = <<>> THEN name
    ELSE IF OccursAt(name, old, 1)
    THEN new \o replace(SubSeq(name, Len(old) + 1, Len(name)), old, new)
    ELSE <<Head(name)>> \o replace(Tail(name), old, new)

\* The dictionary of standardize, in its order.
mapping == <<
    [key |->
        \* "Andaman And Nicobar Islands"
        <<"A", "n", "d", "a", "m", "a", "n", " ", "A", "n", "d", " ", "N",
          "i", "c", "o", "b", "a", "r", " ", "I", "s", "l", "a", "n", "d",
          "s">>,
     val |->
        \* "Andaman & Nicobar Islands"
        <<"A", "n", "d", "a", "m", "a", "n", " ", "&", " ", "N", "i", "c",
          "o", "b", "a", "r", " ", "I", "s", "l", "a", "n", "d", "s">>],
    [key |->
        \* "A & N Islands"
        <<"A", " ", "&", " ", "N", " ", "I", "s", "l", "a", "n", "d", "s">>,
     val |->
        \* "Andaman & Nicobar Islands"
        <<"A", "n", "d", "a", "m", "a", "n", " ", "&", " ", "N", "i", "c",
          "o", "b", "a", "r", " ", "I", "s", "l", "a", "n", "d", "s">>],
    [key |->
        \* "Dadra And Nagar Haveli And Daman And Diu"
        <<"D", "a", "d", "r", "a", " ", "A", "n", "d", " ", "N", "a", "g",
          "a", "r", " ", "H", "a", "v", "e", "l", "i", " ", "A", "n", "d",
          " ", "D", "a", "m", "a", "n", " ", "A", "n", "d", " ", "D", "i",
          "u">>,
     val |->
        \* "D&N Haveli and Daman & Diu"
        <<"D", "&", "N", " ", "H", "a", "v", "e", "l", "i", " ", "a", "n",
          "d", " ", "D", "a", "m", "a", "n", " ", "&", " ", "D", "i", "u">>],
    [key |->
        \* "Jammu And Kashmir"
        <<"J", "a", "m", "m", "u", " ", "A", "n", "d", " ", "K", "a", "s",
          "h", "m", "i", "r">>,
     val |->
        \* "Jammu & Kashmir"
        <<"J", "a", "m", "m", "u", " ", "&", " ", "K", "a", "s", "h", "m",
          "i", "r">>]>>

(* standardize(name), for a string: strip, title, "&" to "And"; the value  *)
(* of the first key that equals the name without regard to case; when no   *)
(* key does, the name with " And " replaced by " & ".                      *)
standardize(name) ==
    LET titled == replace(title(Strip(name)), <<"&">>, <<"A", "n", "d">>)
        hits == {k \in DOMAIN mapping :
                    str_lower(titled) = str_lower(mapping[k].key)}
    IN IF hits # {}
       THEN mapping[CHOOSE k \in hits : \A j \in hits : k <= j].val
       ELSE replace(titled, <<" ", "A", "n", "d", " ">>, <<" ", "&", " ">>)

(* clean_data on the state column: the rows whose state contains "1000"    *)
(* are removed, the others get the standardized name.                      *)
clean_data(column) ==
    LET IsKept(name) == ~Contains(name, <<"1", "0", "0", "0">>)
        kept == SelectSeq(column, IsKept)
    IN [i \in DOMAIN kept |-> standardize(kept[i])]

(* The state names read from the file: the spellings the dictionary        *)
(* lists, keys and values; other names as they come in the files; and all  *)
(* the names of up to MaxName characters made of a letter, "&" and blank.  *)
StateNamesRead ==
    {mapping[k].key : k \in DOMAIN mapping}
    \cup {mapping[k].val : k \in DOMAIN mapping}
    \cup UNION {[1..n -> {"a", "&", " "}] : n \in 1..MaxName}
    \cup {
    \* "  jammu and kashmir "
    <<" ", " ", "j", "a", "m", "m", "u", " ", "a", "n", "d", " ", "k", "a",
      "s", "h", "m", "i", "r", " ">>,
    \* "ODISHA"
    <<"O", "D", "I", "S", "H", "A">>,
    \* "Odisha"
    <<"O", "d", "i", "s", "h", "a">>,
    \* "Goa 1000"
    <<"G", "o", "a", " ", "1", "0", "0", "0">>,
    \* "Daman & Diu"
    <<"D", "a", "m", "a", "n", " ", "&", " ", "D", "i", "u">>}

InitApp ==
    /\ script = "app"
    /\ pc = "read"
    /\ df_enrol = <<>> /\ df_bio = <<>> /\ df_demo = <<>>
    /\ df = <<>>
    /\ sel = NoSelection
    /\ df_filtered = <<>>
    /\ df_analyzed = <<>>
    /\ error = NoError
    /\ fitted = NoMemory
    /\ tie_rank = NoMemory
    /\ first_run = NoMemory
    /\ missing = {}
    /\ audit_df = <<>>
    /\ attempted = <<>>
    /\ success_count = 0
    /\ groq_available = TRUE
    /\ secrets = {}
    /\ state_selection = <<>>
    /\ chat_history = <<>>
    /\ request = NoRequest
    /\ \E name \in StateNamesRead : df_state = <<name>>
    /\ state_before = <<>>

(* "df = clean_data(df)": on the table as read, and once more on the       *)
(* table it returned.                                                      *)
CleanData ==
    /\ script = "app" /\ pc \in {"read", "cleaned"}
    /\ state_before' = df_state
    /\ df_state' = clean_data(df_state)
    /\ pc' = IF pc = "read" THEN "cleaned" ELSE "cleaned again"
    /\ UNCHANGED pipeline
    /\ UNCHANGED <<script, error, attempted, success_count, groq_available,
                   secrets, state_selection, chat_history, request>>

NextApp == CleanData

SpecApp == InitApp /\ [][NextApp]_vars

(* C30: the standardization of state names is idempotent and canonical.    *)
(* Cleaning a cleaned column leaves it as it is; and a name that is a key  *)
(* or a value of the dictionary is given the value of its entry.           *)
C30_IdempotentCanonical ==
    script = "app" =>
        /\ pc = "cleaned again" => df_state = state_before
        /\ pc = "cleaned" =>
              \A k \in DOMAIN mapping :
                 state_before[1] \in {mapping[k].key, mapping[k].val}
                    => df_state = <<mapping[k].val>>

====
